---- MODULE Spec2Model ----
(***************************************************************************)
(* Model of bdlcc::Cache (groups/bdl/bdlcc/bdlcc_cache.h): an in-process   *)
(* key-value cache made of a hash map 'd_map' from key to (value handle,   *)
(* eviction-queue iterator) and a list 'd_queue' of keys in eviction       *)
(* order, with low/high watermarks, an LRU or FIFO policy and an optional  *)
(* post-eviction callback.                                                 *)
(*                                                                         *)
(* Each public method is one action.  'last' records what the most recent  *)
(* call did that is not part of the object's state: its arguments, return  *)
(* code, the lock calls it made, the items it passed to 'evictItem', the   *)
(* callback invocations it made and the containers as they were at its     *)
(* entry.  'Forget' discards that record before the next call is made.     *)
(***************************************************************************)
EXTENDS Integers, Sequences, FiniteSets

\* ------------------------------------------------------------------ bounds
NumKeys      == 3      \* keys are 1..NumKeys
NumValues    == 2      \* value handles are 1..NumValues
MaxWatermark == 4      \* watermarks given to the constructor are 1..MaxWatermark
NumLruKeys   == 4      \* keys used under 'SpecLru' are 1..NumLruKeys
NumLruValues == 1      \* value handles used under 'SpecLru'
NumThreads   == 2      \* threads under 'SpecThreads' are 1..NumThreads
NumExampleKeys == 5    \* keys used under 'SpecExample' are 1..NumExampleKeys
NumConcKeys  == 2      \* keys used by concurrent threads are 1..NumConcKeys
NumHandleKeys == 2     \* keys used under 'SpecHandles' are 1..NumHandleKeys
NumContents  == 2      \* values of ValueType are 1..NumContents

Keys      == 1..NumKeys
LruKeys   == 1..NumLruKeys
LruValues == 1..NumLruValues
ExampleKeys == 1..NumExampleKeys
ConcKeys == 1..NumConcKeys
HandleKeys == 1..NumHandleKeys
Contents == 1..NumContents
Threads   == 1..NumThreads
NoThread  == 0
Values    == 1..NumValues
NullPtr   == 0                     \* an empty bsl::shared_ptr
NoKey     == 0
NoNode    == 0                     \* no list node (a singular iterator)
Callbacks == {"cbA", "cbB"}        \* non-empty bsl::function objects
NoCallback == "none"               \* an empty bsl::function
ReentrantCallbacks == {"cbReenter"}  \* callbacks that call the cache
e_LRU     == "e_LRU"
e_FIFO    == "e_FIFO"

VARIABLES
    d_map,                  \* key -> [first: value handle, second: queue iterator]
    d_queue,                \* list of nodes [node, key], front first
    d_evictionPolicy,
    d_lowWatermark,
    d_highWatermark,
    d_postEvictionCallback,
    last,                   \* observation of the most recent call
    insHist,                \* keys inserted since the cache was last empty
    evHist,                 \* keys evicted (watermark, popFront) in that run
    runOk,                  \* that run is made of inserts of distinct keys
    touched,                \* present keys, least recently touched first
    stage,                  \* how much of 'LruScenario' the latest calls made
    exampleStage,           \* how much of 'UsageExample' they made
    scenarioStage,          \* how much of 'ReinsertScenario' they made
    heap,                   \* value handle -> the object it refers to: its
                            \*   content and the number of handles to it
    held,                   \* value handle -> the content seen through it
                            \*   when a caller or callback obtained it, or 0
    d_rwlock,               \* the reader-writer lock: its writer and readers
    pc,                     \* thread -> where it is in the call it is making
    work                    \* thread -> arguments and callback invocations
                            \*           of the call it is making

vars == <<d_map, d_queue, d_evictionPolicy, d_lowWatermark, d_highWatermark,
          d_postEvictionCallback, last, insHist, evHist, runOk, touched,
          stage, exampleStage, scenarioStage, heap, held, d_rwlock, pc,
          work>>

config == <<d_evictionPolicy, d_lowWatermark, d_highWatermark>>
threads == <<d_rwlock, pc, work>>
monitors == <<exampleStage, scenarioStage>>
handles == <<heap, held>>
ghost  == <<insHist, evHist, runOk, touched, stage, monitors, handles,
            threads>>

\* ------------------------------------------------------- container helpers
Size(map) == Cardinality(DOMAIN map)

MapFind(map, key) == key \in DOMAIN map

MapErase(map, key) == [k \in (DOMAIN map) \ {key} |-> map[k]]

MapEmplace(map, key, entry) ==
    IF key \in DOMAIN map THEN map
    ELSE [k \in (DOMAIN map) \cup {key} |-> IF k = key THEN entry ELSE map[k]]

QueueKeys(q) == [i \in 1..Len(q) |-> q[i].key]

QueueNodes(q) == {q[i].node : i \in 1..Len(q)}

Range(seq) == {seq[i] : i \in 1..Len(seq)}

\* The address of a freshly allocated list node: any address not in use (the
\* node of a key is named after the key when that name is free).
NewNode(q, key) ==
    IF key \notin QueueNodes(q) THEN key
    ELSE CHOOSE n \in {-i : i \in 1..(Len(q) + 1)} :
            /\ n \notin QueueNodes(q)
            /\ \A m \in (n + 1)..(-1) : m \in QueueNodes(q)

\* A variant of 'push_back' that links the new node at the front.
ListPushFront(q, key) == <<[node |-> NewNode(q, key), key |-> key]>> \o q

ListPushBack(q, key) == Append(q, [node |-> NewNode(q, key), key |-> key])

ListPopBack(q) == SubSeq(q, 1, Len(q) - 1)

\* A variant of 'erase' that unlinks the first node.
ListEraseFront(q, itr) == Tail(q)

ListErase(q, itr) ==
    LET Keep(e) == e.node # itr IN SelectSeq(q, Keep)

\* A variant of 'splice' that relinks the node at the front.
ListSpliceToFront(q, itr) ==
    LET Keep(e) == e.node # itr
        Take(e) == e.node = itr
    IN  SelectSeq(q, Take) \o SelectSeq(q, Keep)

\* 'd_queue.splice(d_queue.end(), d_queue, itr)'
ListSplice(q, itr) ==
    LET Keep(e) == e.node # itr
        Take(e) == e.node = itr
    IN SelectSeq(q, Keep) \o SelectSeq(q, Take)

\* '--d_queue.end()': the iterator of the last node.
ListLast(q) == IF q = <<>> THEN NoNode ELSE q[Len(q)].node

\* ------------------------------------------------------ private manipulators
\* The working state of a call: the two containers, the callback invocations
\* made so far, the items passed to 'evictItem' so far, and whether a
\* BSLS_ASSERT has failed.
Start == [map |-> d_map, queue |-> d_queue, calls |-> <<>>, evicted |-> <<>>,
          asserted |-> FALSE]

\* A variant of 'evictItem' that leaves the node in the queue.
EvictItemKeepsNode(st, key) ==
    LET value == st.map[key].first
    IN  [st EXCEPT
           !.map     = MapErase(st.map, key),
           !.calls   = IF d_postEvictionCallback # NoCallback
                       THEN Append(st.calls, [cb    |-> d_postEvictionCallback,
                                              value |-> value])
                       ELSE st.calls,
           !.evicted = Append(st.evicted, [key |-> key, value |-> value])]

\* A variant of 'evictItem' that does not invoke the callback.
EvictItemSilent(st, key) ==
    LET value == st.map[key].first
    IN  [st EXCEPT
           !.queue   = ListErase(st.queue, st.map[key].second),
           !.map     = MapErase(st.map, key),
           !.evicted = Append(st.evicted, [key |-> key, value |-> value])]

\* evictItem(mapItr), 'key' being the key 'mapItr' points to.
EvictItem(st, key) ==
    LET value == st.map[key].first
    IN  [st EXCEPT
           !.queue   = ListErase(st.queue, st.map[key].second),
           !.map     = MapErase(st.map, key),
           !.calls   = IF d_postEvictionCallback # NoCallback
                       THEN Append(st.calls, [cb    |-> d_postEvictionCallback,
                                              value |-> value])
                       ELSE st.calls,
           !.evicted = Append(st.evicted, [key |-> key, value |-> value])]

\* Variants of the entry test of 'enforceHighWatermark'.
BelowHighWatermarkInclusive(map) == Size(map) <= d_highWatermark

BelowLowWatermark(map) == Size(map) < d_lowWatermark

\* 'if (d_map.size() < d_highWatermark) return;'
BelowHighWatermark(map) == Size(map) < d_highWatermark

\* Variants of the loop test of 'enforceHighWatermark'.
EvictionContinuesStrict(map) == Size(map) > d_lowWatermark /\ Size(map) > 0

EvictionContinuesTooFar(map) == Size(map) >= d_lowWatermark - 1 /\ Size(map) > 0

\* 'while (size() >= d_lowWatermark && size() > 0)'
EvictionContinues(map) == Size(map) >= d_lowWatermark /\ Size(map) > 0

RECURSIVE EvictLoop(_)
EvictLoop(st) ==
    IF EvictionContinues(st.map)
    THEN IF st.queue # <<>> /\ MapFind(st.map, Head(st.queue).key)
         THEN EvictLoop(EvictItem(st, Head(st.queue).key))
         ELSE [st EXCEPT !.asserted = TRUE]
    ELSE st

EnforceHighWatermark(st) ==
    IF BelowHighWatermark(st.map) THEN st ELSE EvictLoop(st)

\* Variants of the branch for a present key.
InsertPresentNoSplice(st, key, valuePtr) ==
    [st EXCEPT !.map = [st.map EXCEPT ![key].first = valuePtr]]

InsertPresentKeepsValue(st, key, valuePtr) ==
    [st EXCEPT !.queue = ListSplice(st.queue, st.map[key].second)]

\* A variant of the branch for a present key that reports the replaced
\* value to the callback.
InsertPresentNotifies(st, key, valuePtr) ==
    [st EXCEPT
       !.map   = [st.map EXCEPT ![key].first = valuePtr],
       !.queue = ListSplice(st.queue, st.map[key].second),
       !.calls = IF d_postEvictionCallback # NoCallback
                 THEN Append(st.calls, [cb    |-> d_postEvictionCallback,
                                        value |-> st.map[key].first])
                 ELSE st.calls]

\* ----------------------------------------------------------------- insert
\* The branch taken when 'd_map.find(key)' succeeds.
InsertPresent(st, key, valuePtr) ==
    [st EXCEPT
       !.map   = [st.map EXCEPT ![key].first = valuePtr],
       !.queue = ListSplice(st.queue, st.map[key].second)]

\* A variant of the proctor's destructor that never pops.
QueueProctorExitKeeps(q, released) == q

\* '~QueueProctor()': 'pop_back' unless 'release' was called.
QueueProctorExit(q, released) == IF released THEN q ELSE ListPopBack(q)

\* A variant of the branch for an absent key that emplaces first and has no
\* proctor.
InsertAbsentEmplaceFirst(st, key, valuePtr, failAt) ==
    IF failAt = "emplace" THEN st
    ELSE
      LET emplaced == [st EXCEPT
                         !.map = MapEmplace(st.map, key,
                                            [first  |-> valuePtr,
                                             second |-> NewNode(st.queue, key)])]
      IN  IF failAt = "push_back" THEN emplaced
          ELSE [emplaced EXCEPT !.queue = ListPushBack(st.queue, key)]

\* The branch taken when 'd_map.find(key)' fails.  'failAt' names the
\* allocation that throws: "push_back", "emplace" or "none".
InsertAbsent(st, key, valuePtr, failAt) ==
    IF failAt = "push_back" THEN st
    ELSE
      LET pushed   == ListPushBack(st.queue, key)
          queueItr == ListLast(pushed)
      IN  IF failAt = "emplace"
          THEN [st EXCEPT !.queue = QueueProctorExit(pushed, FALSE)]
          ELSE [st EXCEPT
                  !.map   = MapEmplace(st.map, key,
                                       [first |-> valuePtr, second |-> queueItr]),
                  !.queue = QueueProctorExit(pushed, TRUE)]

\* A variant of insert that looks the key up before it enforces the high
\* watermark, and assigns to the entry found if it is still there.
InsertImplFindFirst(key, valuePtr, failAt) ==
    LET found == MapFind(d_map, key)
        mid   == EnforceHighWatermark(Start)
        fin   == IF mid.asserted THEN mid
                 ELSE IF found
                 THEN IF MapFind(mid.map, key)
                      THEN InsertPresent(mid, key, valuePtr)
                      ELSE mid
                 ELSE InsertAbsent(mid, key, valuePtr, failAt)
    IN  [fin     |-> fin,
         mid     |-> mid,
         found   |-> found,
         midSize |-> Size(mid.map),
         threw   |-> ~mid.asserted /\ ~found /\ failAt # "none"]

\* insert: 'enforceHighWatermark()', then 'd_map.find(key)' and the branch
\* taken.
InsertImpl(key, valuePtr, failAt) ==
    LET mid   == EnforceHighWatermark(Start)
        found == MapFind(mid.map, key)
        fin   == IF mid.asserted THEN mid
                 ELSE IF found THEN InsertPresent(mid, key, valuePtr)
                 ELSE InsertAbsent(mid, key, valuePtr, failAt)
    IN  [fin     |-> fin,
         mid     |-> mid,
         found   |-> found,
         midSize |-> Size(mid.map),
         threw   |-> ~mid.asserted /\ ~found /\ failAt # "none"]

\* ------------------------------------------------------------ observations
NoCall == [op |-> "none", key |-> NoKey, valuePtr |-> NullPtr,
           modifyEvictionQueue |-> FALSE, rc |-> 0, policy |-> "none",
           threw |-> FALSE, failAt |-> "none",
           found |-> FALSE, assigned |-> FALSE, value |-> NullPtr,
           midSize |-> 0, evicted |-> <<>>, calls |-> <<>>,
           locks |-> <<>>, visited |-> <<>>, asserted |-> FALSE,
           postEvictionCallback |-> NoCallback, stopKeys |-> {},
           preMap |-> << >>, preQueue |-> << >>,
           preCallback |-> NoCallback,
           midMap |-> << >>, midQueue |-> << >>,
           prior |-> [insert |-> FALSE, erase |-> FALSE, key |-> NoKey,
                      valuePtr |-> NullPtr, found |-> FALSE,
                      evictions |-> 0]]

\* No call is in progress and the results of the latest one are consumed.
Idle == last.op = "none"

\* The observation of a call of 'op' made in the current state.
Called(op) == [NoCall EXCEPT !.op = op,
                  !.preMap = d_map, !.preQueue = d_queue,
                  !.preCallback = d_postEvictionCallback,
                  !.midMap = d_map, !.midQueue = d_queue]

\* What is remembered of a call once its results have been consumed: the
\* arguments of the call if it was an 'insert' that returned normally, the
\* key if it was an 'erase'.
Memo ==
    IF last.op = "insert" /\ ~last.threw /\ ~last.asserted
    THEN [insert |-> TRUE, erase |-> FALSE, key |-> last.key,
          valuePtr |-> last.valuePtr, found |-> last.found,
          evictions |-> Len(last.evicted)]
    ELSE IF last.op = "erase"
    THEN [NoCall.prior EXCEPT !.erase = TRUE, !.key = last.key,
                              !.found = last.found]
    ELSE NoCall.prior

\* What a 'tryGetValue(key)' records of the call made immediately before it,
\* if that call was an 'insert' of the same 'key' that returned normally.
Prior(key) ==
    IF last.prior.insert /\ last.prior.key = key THEN last.prior
    ELSE NoCall.prior

\* What an 'erase(key)' records of the call made immediately before it, if
\* that call was an 'erase' of the same 'key'.
PriorErase(key) ==
    IF last.prior.erase /\ last.prior.key = key THEN last.prior
    ELSE NoCall.prior

Remove(seq, key) == LET Keep(k) == k # key IN SelectSeq(seq, Keep)

EvictedKeys(evicted) == [i \in 1..Len(evicted) |-> evicted[i].key]

\* ------------------------------------------------------------ tryGetValue
\* A variant that never reserves the write lock.
PrelockNeverReserves(modifyEvictionQueue) == <<"lockRead">>

PrelockAlwaysReserves(modifyEvictionQueue) == <<"lockReadReserveWrite">>

\* The lock calls made before the lookup: 'lockReadReserveWrite' when the
\* queue may have to be modified, else the read lock taken by the guard.
Prelock(modifyEvictionQueue) ==
    IF d_evictionPolicy = e_FIFO \/ ~modifyEvictionQueue
    THEN <<"lockRead">>
    ELSE <<"lockReadReserveWrite">>

\* A variant of the reorder test that ignores the policy.
MayReorderAnyPolicy(modifyEvictionQueue) == modifyEvictionQueue

\* 'd_evictionPolicy == e_LRU && modifyEvictionQueue'
MayReorder(modifyEvictionQueue) ==
    d_evictionPolicy = e_LRU /\ modifyEvictionQueue

\* Variants of the position test: one that also skips the node at the
\* front, one that never skips.
NotAtBackNorFront(q, queueItr) ==
    ListLast(q) # queueItr /\ Head(q).node # queueItr

AlwaysNotAtBack(q, queueItr) == TRUE

\* 'last != queueItr'
NotAtBack(q, queueItr) == ListLast(q) # queueItr

\* A variant of the miss path that resets the caller's handle.
TryGetValueMissResets(pre) ==
    [rc |-> 1, assigned |-> TRUE, value |-> NullPtr, queue |-> d_queue,
     locks |-> pre \o <<"unlock">>]

\* 'if (mapItr == d_map.end()) return 1;'
TryGetValueMiss(pre) ==
    [rc |-> 1, assigned |-> FALSE, value |-> NullPtr, queue |-> d_queue,
     locks |-> pre \o <<"unlock">>]

TryGetValueImpl(key, modifyEvictionQueue) ==
    LET pre == Prelock(modifyEvictionQueue)
    IN  IF ~MapFind(d_map, key)
        THEN TryGetValueMiss(pre)
        ELSE LET queueItr == d_map[key].second
                 move == MayReorder(modifyEvictionQueue)
                            /\ NotAtBack(d_queue, queueItr)
             IN  [rc |-> 0, assigned |-> TRUE, value |-> d_map[key].first,
                  queue |-> IF move THEN ListSplice(d_queue, queueItr)
                            ELSE d_queue,
                  locks |-> pre \o (IF move THEN <<"upgradeToWriteLock">>
                                    ELSE << >>) \o <<"unlock">>]

\* ------------------------------------------------------------------- visit
\* A variant of the loop of 'visit' that ignores what the visitor returns.
RECURSIVE VisitLoopNoBreak(_, _, _, _)
VisitLoopNoBreak(map, q, stopKeys, visited) ==
    IF q = << >> THEN [visited |-> visited, asserted |-> FALSE]
    ELSE LET key == Head(q).key
         IN  IF ~MapFind(map, key)
             THEN [visited |-> visited, asserted |-> TRUE]
             ELSE VisitLoopNoBreak(map, Tail(q), stopKeys,
                                   Append(visited,
                                          [key   |-> key,
                                           value |-> map[key].first]))

\* The visitor returns 'false' exactly for the keys in 'stopKeys'.
RECURSIVE VisitLoop(_, _, _, _)
VisitLoop(map, q, stopKeys, visited) ==
    IF q = << >> THEN [visited |-> visited, asserted |-> FALSE]
    ELSE LET key == Head(q).key
         IN  IF ~MapFind(map, key)
             THEN [visited |-> visited, asserted |-> TRUE]
             ELSE LET seen == Append(visited,
                                     [key |-> key, value |-> map[key].first])
                  IN  IF key \in stopKeys
                      THEN [visited |-> seen, asserted |-> FALSE]
                      ELSE VisitLoop(map, Tail(q), stopKeys, seen)

\* --------------------------------------------------------------- threads
\* The reader-writer lock: at most one writer, and no reader beside it; one
\* of the readers may hold the reservation of the write lock; 'pending' are
\* the threads waiting for the write lock.
RwInit == [writer |-> NoThread, readers |-> {}, reserved |-> NoThread,
           pending |-> {}]

CanLockWrite(l) == l.writer = NoThread /\ l.readers = {}

RwLockWrite(l, t) == [l EXCEPT !.writer = t, !.pending = @ \ {t}]

\* A thread starts to wait for the write lock.
RwRequestWrite(l, t) == [l EXCEPT !.pending = @ \cup {t}]

\* Write access has priority over read access: no read lock is granted
\* while a thread waits for the write lock.
CanLockRead(l) == l.writer = NoThread /\ l.pending = {}

RwLockRead(l, t) == [l EXCEPT !.readers = @ \cup {t}]

\* The reservation is held by one reader at a time.
CanLockReadReserveWrite(l) == CanLockRead(l) /\ l.reserved = NoThread

RwLockReadReserveWrite(l, t) ==
    [l EXCEPT !.readers = @ \cup {t}, !.reserved = t]

\* The holder of the reservation becomes the writer once it is the only
\* reader, with no other writer in between.
CanUpgrade(l, t) == l.reserved = t /\ l.readers = {t}

RwUpgradeToWriteLock(l, t) ==
    [l EXCEPT !.writer = t, !.readers = {}, !.reserved = NoThread,
              !.pending = @ \ {t}]

RwUnlock(l, t) ==
    IF l.writer = t THEN [l EXCEPT !.writer = NoThread]
    ELSE [l EXCEPT !.readers = @ \ {t},
                   !.reserved = IF @ = t THEN NoThread ELSE @,
                   !.pending = @ \ {t}]

\* What a thread holds of the call it is making.
NoWork == [op |-> "none", key |-> NoKey, valuePtr |-> NullPtr,
           postEvictionCallback |-> NoCallback,
           modifyEvictionQueue |-> FALSE, stopKeys |-> {},
           queueItr |-> NoNode, value |-> NullPtr, visited |-> 0,
           calls |-> << >>, evicted |-> << >>, seen |-> << >>,
           captured |-> NullPtr, resume |-> "none", sizes |-> << >>]

\* The working state of the call thread 't' is making.
Working(t) == [map |-> d_map, queue |-> d_queue, calls |-> work[t].calls,
               evicted |-> work[t].evicted, asserted |-> FALSE]

\* ------------------------------------------------------------------ actions
Init ==
    /\ d_map = << >>
    /\ d_queue = << >>
    /\ d_evictionPolicy \in {e_LRU, e_FIFO}
    /\ d_lowWatermark \in 1..MaxWatermark
    /\ d_highWatermark \in d_lowWatermark..MaxWatermark
    /\ d_postEvictionCallback = NoCallback
    /\ last = NoCall
    /\ insHist = << >>
    /\ evHist = << >>
    /\ runOk = TRUE
    /\ touched = << >>
    /\ stage = 0
    /\ exampleStage = 0
    /\ scenarioStage = 0
    /\ heap = [p \in Values |-> [content |-> 0, count |-> 0]]
    /\ held = [p \in Values |-> 0]
    /\ d_rwlock = RwInit
    /\ pc = [t \in Threads |-> "idle"]
    /\ work = [t \in Threads |-> NoWork]

Insert(key, valuePtr, failAt) ==
    LET r == InsertImpl(key, valuePtr, failAt)
    IN  /\ Idle
        /\ d_map' = r.fin.map
        /\ d_queue' = r.fin.queue
        /\ last' = [Called("insert") EXCEPT !.key = key,
                       !.valuePtr = valuePtr, !.threw = r.threw,
                       !.failAt = IF r.threw THEN failAt ELSE "none",
                       !.found = r.found, !.midSize = r.midSize,
                       !.midMap = r.mid.map, !.midQueue = r.mid.queue,
                       !.evicted = r.fin.evicted, !.calls = r.fin.calls,
                       !.locks = <<"lockWrite", "unlock">>,
                       !.asserted = r.fin.asserted]
        /\ UNCHANGED <<config, d_postEvictionCallback>>

TryGetValue(key, modifyEvictionQueue) ==
    LET r == TryGetValueImpl(key, modifyEvictionQueue)
    IN  /\ Idle
        /\ d_queue' = r.queue
        /\ last' = [Called("tryGetValue") EXCEPT !.key = key,
                       !.modifyEvictionQueue = modifyEvictionQueue,
                       !.rc = r.rc, !.found = (r.rc = 0),
                       !.assigned = r.assigned, !.value = r.value,
                       !.locks = r.locks, !.prior = Prior(key)]
        /\ UNCHANGED <<d_map, config, d_postEvictionCallback>>

\* A variant of 'popFront' that looks up 'd_queue.back()'.
PopFrontFromBack ==
    LET nonEmpty == Size(d_map) > 0
        ok  == nonEmpty /\ d_queue # << >>
                   /\ MapFind(d_map, d_queue[Len(d_queue)].key)
        fin == IF ok THEN EvictItem(Start, d_queue[Len(d_queue)].key)
               ELSE [Start EXCEPT !.asserted = nonEmpty]
    IN  /\ Idle
        /\ d_map' = fin.map
        /\ d_queue' = fin.queue
        /\ last' = [Called("popFront") EXCEPT
                       !.rc = IF nonEmpty THEN 0 ELSE 1,
                       !.evicted = fin.evicted, !.calls = fin.calls,
                       !.locks = <<"lockWrite", "unlock">>,
                       !.asserted = fin.asserted]
        /\ UNCHANGED <<config, d_postEvictionCallback>>

PopFront ==
    LET nonEmpty == Size(d_map) > 0
        ok  == nonEmpty /\ d_queue # << >>
                   /\ MapFind(d_map, Head(d_queue).key)
        fin == IF ok THEN EvictItem(Start, Head(d_queue).key)
               ELSE [Start EXCEPT !.asserted = nonEmpty]
    IN  /\ Idle
        /\ d_map' = fin.map
        /\ d_queue' = fin.queue
        /\ last' = [Called("popFront") EXCEPT
                       !.rc = IF nonEmpty THEN 0 ELSE 1,
                       !.evicted = fin.evicted, !.calls = fin.calls,
                       !.locks = <<"lockWrite", "unlock">>,
                       !.asserted = fin.asserted]
        /\ UNCHANGED <<config, d_postEvictionCallback>>

\* A variant of 'erase' that evicts the front item when 'key' is not found.
EraseAbsentEvictsFront(key) ==
    LET found == MapFind(d_map, key)
        fin   == IF found THEN EvictItem(Start, key)
                 ELSE IF d_queue # << >>
                 THEN EvictItem(Start, Head(d_queue).key)
                 ELSE Start
    IN  /\ Idle
        /\ d_map' = fin.map
        /\ d_queue' = fin.queue
        /\ last' = [Called("erase") EXCEPT !.key = key,
                       !.rc = IF found THEN 0 ELSE 1, !.found = found,
                       !.evicted = fin.evicted, !.calls = fin.calls,
                       !.locks = <<"lockWrite", "unlock">>,
                       !.prior = PriorErase(key)]
        /\ UNCHANGED <<config, d_postEvictionCallback>>

Erase(key) ==
    LET found == MapFind(d_map, key)
        fin   == IF found THEN EvictItem(Start, key) ELSE Start
    IN  /\ Idle
        /\ d_map' = fin.map
        /\ d_queue' = fin.queue
        /\ last' = [Called("erase") EXCEPT !.key = key,
                       !.rc = IF found THEN 0 ELSE 1, !.found = found,
                       !.evicted = fin.evicted, !.calls = fin.calls,
                       !.locks = <<"lockWrite", "unlock">>,
                       !.prior = PriorErase(key)]
        /\ UNCHANGED <<config, d_postEvictionCallback>>

SetPostEvictionCallback(postEvictionCallback) ==
    /\ Idle
    /\ d_postEvictionCallback' = postEvictionCallback
    /\ last' = [Called("setPostEvictionCallback") EXCEPT
                   !.postEvictionCallback = postEvictionCallback,
                   !.locks = <<"lockWrite", "unlock">>]
    /\ UNCHANGED <<d_map, d_queue, config>>

\* A variant of 'clear' that invokes the callback for every item.
ClearNotifies ==
    /\ Idle
    /\ d_map' = << >>
    /\ d_queue' = << >>
    /\ last' = [Called("clear") EXCEPT
                   !.calls = IF d_postEvictionCallback = NoCallback THEN << >>
                             ELSE [i \in 1..Len(d_queue) |->
                                     [cb    |-> d_postEvictionCallback,
                                      value |-> d_map[d_queue[i].key].first]],
                   !.locks = <<"lockWrite", "unlock">>]
    /\ UNCHANGED <<config, d_postEvictionCallback>>

\* A variant of 'clear' that also resets the low watermark.
ClearResetsWatermarks ==
    /\ Idle
    /\ d_map' = << >>
    /\ d_queue' = << >>
    /\ d_lowWatermark' = 1
    /\ last' = [Called("clear") EXCEPT
                   !.locks = <<"lockWrite", "unlock">>]
    /\ UNCHANGED <<d_evictionPolicy, d_highWatermark,
                   d_postEvictionCallback>>

Clear ==
    /\ Idle
    /\ d_map' = << >>
    /\ d_queue' = << >>
    /\ last' = [Called("clear") EXCEPT
                   !.locks = <<"lockWrite", "unlock">>]
    /\ UNCHANGED <<config, d_postEvictionCallback>>

Visit(stopKeys) ==
    LET r == VisitLoop(d_map, d_queue, stopKeys, << >>)
    IN  /\ Idle
        /\ last' = [Called("visit") EXCEPT !.visited = r.visited,
                       !.stopKeys = stopKeys,
                       !.asserted = r.asserted,
                       !.locks = <<"lockRead", "unlock">>]
        /\ UNCHANGED <<d_map, d_queue, config, d_postEvictionCallback>>

\* size(): 'd_map.size()', read without taking the lock.
SizeAccessor ==
    /\ Idle
    /\ last' = [Called("size") EXCEPT !.rc = Size(d_map)]
    /\ UNCHANGED <<d_map, d_queue, config, d_postEvictionCallback>>

\* evictionPolicy(), lowWatermark(), highWatermark(): no lock taken.
EvictionPolicyAccessor ==
    /\ Idle
    /\ last' = [Called("evictionPolicy") EXCEPT !.policy = d_evictionPolicy]
    /\ UNCHANGED <<d_map, d_queue, config, d_postEvictionCallback>>

LowWatermarkAccessor ==
    /\ Idle
    /\ last' = [Called("lowWatermark") EXCEPT !.rc = d_lowWatermark]
    /\ UNCHANGED <<d_map, d_queue, config, d_postEvictionCallback>>

HighWatermarkAccessor ==
    /\ Idle
    /\ last' = [Called("highWatermark") EXCEPT !.rc = d_highWatermark]
    /\ UNCHANGED <<d_map, d_queue, config, d_postEvictionCallback>>

\* The caller consumes the results of the latest call; the next call is made
\* after that.
Forget ==
    /\ last.op # "none"
    /\ last' = [NoCall EXCEPT !.prior = Memo]
    /\ UNCHANGED <<d_map, d_queue, config, d_postEvictionCallback>>

Next ==
    \/ \E key \in Keys, valuePtr \in Values,
          failAt \in {"none", "push_back", "emplace"} :
            Insert(key, valuePtr, failAt) /\ UNCHANGED ghost
    \/ \E key \in Keys, modifyEvictionQueue \in BOOLEAN :
            TryGetValue(key, modifyEvictionQueue) /\ UNCHANGED ghost
    \/ PopFront /\ UNCHANGED ghost
    \/ \E key \in Keys : Erase(key) /\ UNCHANGED ghost
    \/ \E cb \in Callbacks \cup {NoCallback} :
            SetPostEvictionCallback(cb) /\ UNCHANGED ghost
    \/ Clear /\ UNCHANGED ghost
    \/ \E stopKeys \in SUBSET Keys : Visit(stopKeys) /\ UNCHANGED ghost
    \/ SizeAccessor /\ UNCHANGED ghost
    \/ EvictionPolicyAccessor /\ UNCHANGED ghost
    \/ LowWatermarkAccessor /\ UNCHANGED ghost
    \/ HighWatermarkAccessor /\ UNCHANGED ghost
    \/ Forget /\ UNCHANGED ghost

Spec == Init /\ [][Next]_vars

\* ---------------------------------------------- runs of distinct inserts
\* The run of inserts of distinct keys into an empty cache: it goes on with
\* 'ins' and 'ev' while 'ok', is abandoned otherwise, and a new run starts
\* when the cache is empty again.
Ghost(queue, ok, ins, ev) ==
    IF ok
    THEN /\ insHist' = ins
         /\ evHist' = ev
         /\ runOk' = TRUE
    ELSE /\ insHist' = << >>
         /\ evHist' = << >>
         /\ runOk' = (queue = << >>)

TrackRun ==
    LET c     == last'
        ev    == EvictedKeys(c.evicted)
        added == ~c.threw /\ ~c.asserted
    IN  /\ UNCHANGED <<touched, stage, monitors, handles, threads>>
        /\ CASE c.op = "insert" ->
                  Ghost(d_queue',
                        runOk /\ (~added \/ c.key \notin Range(insHist)),
                        IF added THEN Append(insHist, c.key) ELSE insHist,
                        evHist \o ev)
             [] c.op = "popFront" ->
                  Ghost(d_queue', runOk, insHist, evHist \o ev)
             [] c.op = "erase" ->
                  Ghost(d_queue', runOk /\ ~c.found, insHist, evHist)
             [] c.op = "clear" -> Ghost(d_queue', FALSE, << >>, << >>)
             [] OTHER -> UNCHANGED <<insHist, evHist, runOk>>

InitFifo == Init /\ d_evictionPolicy = e_FIFO

NextFifo ==
    \/ \E key \in Keys, valuePtr \in Values,
          failAt \in {"none", "push_back", "emplace"} :
            Insert(key, valuePtr, failAt) /\ TrackRun
    \/ \E key \in Keys, modifyEvictionQueue \in BOOLEAN :
            TryGetValue(key, modifyEvictionQueue) /\ TrackRun
    \/ PopFront /\ TrackRun
    \/ \E key \in Keys : Erase(key) /\ TrackRun
    \/ \E cb \in Callbacks \cup {NoCallback} :
            SetPostEvictionCallback(cb) /\ TrackRun
    \/ Clear /\ TrackRun
    \/ \E stopKeys \in SUBSET Keys : Visit(stopKeys) /\ TrackRun
    \/ SizeAccessor /\ TrackRun
    \/ EvictionPolicyAccessor /\ TrackRun
    \/ LowWatermarkAccessor /\ TrackRun
    \/ HighWatermarkAccessor /\ TrackRun
    \/ Forget /\ UNCHANGED ghost

SpecFifo == InitFifo /\ [][NextFifo]_vars

\* ------------------------------------------------ order of last touch (LRU)
RemoveAll(seq, keys) == LET Keep(k) == k \notin keys IN SelectSeq(seq, Keep)

Touch(seq, key) == Append(Remove(seq, key), key)

\* A run of calls that tells LRU from FIFO: three inserts, a read of the
\* first key, a fourth insert.
LruScenario ==
    <<[op |-> "insert", key |-> 1], [op |-> "insert", key |-> 2],
      [op |-> "insert", key |-> 3], [op |-> "tryGetValue", key |-> 1],
      [op |-> "insert", key |-> 4]>>

StepMatches(c, step) ==
    /\ c.op = step.op
    /\ c.key = step.key
    /\ ~c.threw
    /\ (c.op = "tryGetValue" => c.modifyEvictionQueue)

\* The keys in order of their last touch, computed from what each call
\* reports (its arguments, its return code, the items it evicted), and the
\* number of calls of 'LruScenario' made in a row from an empty cache.
TrackTouch ==
    LET c    == last'
        rest == RemoveAll(touched, Range(EvictedKeys(c.evicted)))
    IN  /\ UNCHANGED <<insHist, evHist, runOk, monitors, handles, threads>>
        /\ touched' =
              CASE c.op = "insert" ->
                     IF c.threw \/ c.asserted THEN rest ELSE Touch(rest, c.key)
                [] c.op = "tryGetValue" ->
                     IF c.rc = 0 /\ c.modifyEvictionQueue
                     THEN Touch(touched, c.key) ELSE touched
                [] c.op \in {"popFront", "erase"} -> rest
                [] c.op = "clear" -> << >>
                [] OTHER -> touched
        /\ stage' =
              IF stage \in 1..(Len(LruScenario) - 1)
                    /\ StepMatches(c, LruScenario[stage + 1])
              THEN stage + 1
              ELSE IF StepMatches(c, LruScenario[1]) /\ c.preQueue = << >>
              THEN 1
              ELSE 0

InitLru == Init /\ d_evictionPolicy = e_LRU

NextLru ==
    \/ \E key \in LruKeys, valuePtr \in LruValues,
          failAt \in {"none", "push_back", "emplace"} :
            Insert(key, valuePtr, failAt) /\ TrackTouch
    \/ \E key \in LruKeys, modifyEvictionQueue \in BOOLEAN :
            TryGetValue(key, modifyEvictionQueue) /\ TrackTouch
    \/ PopFront /\ TrackTouch
    \/ \E key \in LruKeys : Erase(key) /\ TrackTouch
    \/ \E cb \in Callbacks \cup {NoCallback} :
            SetPostEvictionCallback(cb) /\ TrackTouch
    \/ Clear /\ TrackTouch
    \/ \E stopKeys \in SUBSET LruKeys : Visit(stopKeys) /\ TrackTouch
    \/ SizeAccessor /\ TrackTouch
    \/ EvictionPolicyAccessor /\ TrackTouch
    \/ LowWatermarkAccessor /\ TrackTouch
    \/ HighWatermarkAccessor /\ TrackTouch
    \/ Forget /\ UNCHANGED ghost

SpecLru == InitLru /\ [][NextLru]_vars

\* ------------------------------------------ the default-constructed cache
\* 'bsl::numeric_limits<bsl::size_t>::max()', the value of both watermarks
\* of a default-constructed cache, as the largest integer of the model
\* checker.
SizeMax == 2147483647

\* A variant of the default constructor that makes a cache of two entries.
InitDefaultSmall ==
    /\ Init
    /\ d_evictionPolicy = e_LRU
    /\ d_lowWatermark = 2
    /\ d_highWatermark = 2

\* The state after 'Cache(bslma::Allocator *basicAllocator = 0)'.
InitDefault ==
    /\ d_map = << >>
    /\ d_queue = << >>
    /\ d_evictionPolicy = e_LRU
    /\ d_lowWatermark = SizeMax
    /\ d_highWatermark = SizeMax
    /\ d_postEvictionCallback = NoCallback
    /\ last = NoCall
    /\ insHist = << >>
    /\ evHist = << >>
    /\ runOk = TRUE
    /\ touched = << >>
    /\ stage = 0
    /\ exampleStage = 0
    /\ scenarioStage = 0
    /\ heap = [p \in Values |-> [content |-> 0, count |-> 0]]
    /\ held = [p \in Values |-> 0]
    /\ d_rwlock = RwInit
    /\ pc = [t \in Threads |-> "idle"]
    /\ work = [t \in Threads |-> NoWork]

\* The calls of 'NextLru' on a default-constructed cache.
SpecDefault == InitDefault /\ [][NextLru]_vars

\* -------------------------------------------- the usage example, replayed
\* Usage Example 1 of the component documentation, its keys 0..4 named 1..5
\* and its strings named by value handles: the cache is created with policy
\* LRU, low watermark 3 and high watermark 4, then these calls are made.
UsageExample ==
    <<[op |-> "insert", key |-> 1, valuePtr |-> 1],
      [op |-> "insert", key |-> 2, valuePtr |-> 1],
      [op |-> "insert", key |-> 3, valuePtr |-> 2],
      [op |-> "tryGetValue", key |-> 2, valuePtr |-> NullPtr],
      [op |-> "setPostEvictionCallback", key |-> NoKey, valuePtr |-> NullPtr],
      [op |-> "insert", key |-> 4, valuePtr |-> 1],
      [op |-> "insert", key |-> 5, valuePtr |-> 2]>>

\* The same construction followed by inserts only, the second key being
\* inserted twice.
ReinsertScenario ==
    <<[op |-> "insert", key |-> 1], [op |-> "insert", key |-> 2],
      [op |-> "insert", key |-> 3], [op |-> "insert", key |-> 2],
      [op |-> "insert", key |-> 4], [op |-> "insert", key |-> 5]>>

ExampleStepMatches(c, step) ==
    /\ StepMatches(c, step)
    /\ (c.op = "insert" => c.valuePtr = step.valuePtr)
    /\ (c.op = "setPostEvictionCallback" =>
           c.postEvictionCallback # NoCallback)

\* The number of calls of 'scenario' made in a row, the first of them on an
\* empty cache with no callback installed, when the call 'c' is made after
\* 'n' of them ('exact': the values inserted are those of the scenario).
Advance(n, c, scenario, exact) ==
    LET Matches(step) == IF exact THEN ExampleStepMatches(c, step)
                         ELSE StepMatches(c, step)
    IN  IF n \in 1..(Len(scenario) - 1) /\ Matches(scenario[n + 1])
        THEN n + 1
        ELSE IF /\ Matches(scenario[1])
                /\ c.preQueue = << >>
                /\ c.preCallback = NoCallback
        THEN 1
        ELSE 0

TrackExample ==
    /\ UNCHANGED <<insHist, evHist, runOk, touched, stage, handles, threads>>
    /\ exampleStage'
          = Advance(exampleStage, last', UsageExample, TRUE)
    /\ scenarioStage'
          = Advance(scenarioStage, last', ReinsertScenario, FALSE)

\* 'bdlcc::Cache<int, bsl::string> myCache(e_LRU, 3, 4);'; the calls that
\* follow allocate without failure, and a visitor either visits every item
\* or stops at the first.
InitExample ==
    /\ Init
    /\ d_evictionPolicy = e_LRU
    /\ d_lowWatermark = 3
    /\ d_highWatermark = 4

NextExample ==
    \/ \E key \in ExampleKeys, valuePtr \in Values :
            Insert(key, valuePtr, "none") /\ TrackExample
    \/ \E key \in ExampleKeys, modifyEvictionQueue \in BOOLEAN :
            TryGetValue(key, modifyEvictionQueue) /\ TrackExample
    \/ PopFront /\ TrackExample
    \/ \E key \in ExampleKeys : Erase(key) /\ TrackExample
    \/ \E cb \in Callbacks \cup {NoCallback} :
            SetPostEvictionCallback(cb) /\ TrackExample
    \/ Clear /\ TrackExample
    \/ \E stopKeys \in {{}, ExampleKeys} : Visit(stopKeys) /\ TrackExample
    \/ SizeAccessor /\ TrackExample
    \/ EvictionPolicyAccessor /\ TrackExample
    \/ LowWatermarkAccessor /\ TrackExample
    \/ HighWatermarkAccessor /\ TrackExample
    \/ Forget /\ UNCHANGED ghost

SpecExample == InitExample /\ [][NextExample]_vars

\* ------------------------------------------------------- value handles
\* 'bsl::shared_ptr<ValueType>': the object a handle refers to lives as long
\* as there is a handle to it.  The handles counted are those stored in the
\* map and one for the callers and callbacks that hold the object.
NoObject == [content |-> 0, count |-> 0]

MakeShared(h, p, content) ==
    [h EXCEPT ![p] = [content |-> content, count |-> 1]]

PtrCopy(h, p) == [h EXCEPT ![p].count = @ + 1]

PtrDestroy(h, p) ==
    IF h[p].count <= 1 THEN [h EXCEPT ![p] = NoObject]
    ELSE [h EXCEPT ![p].count = @ - 1]

MapRefs(map, p) == Cardinality({k \in DOMAIN map : map[k].first = p})

\* Callbacks that keep a copy of the handle they are passed.
KeepingCallbacks == {"cbA"}

\* A caller or callback obtains a copy of the handle 'p'.
Obtain(hs, p) ==
    IF hs.held[p] # 0 THEN hs
    ELSE [heap |-> PtrCopy(hs.heap, p),
          held |-> [hs.held EXCEPT ![p] = hs.heap[p].content]]

\* tryGetValue: '*value = mapItr->second.first;'
TryGetValueHandle(hs, p) == Obtain(hs, p)

\* evictItem: 'ValuePtrType value = mapItr->second.first;', the erasure of
\* the map entry, the invocation of 'callback' with 'value', and the
\* destruction of 'value' on return.
EvictHandle(hs, p, callback) ==
    LET copied  == [hs EXCEPT !.heap = PtrCopy(hs.heap, p)]
        erased  == [copied EXCEPT !.heap = PtrDestroy(copied.heap, p)]
        invoked == IF callback \in KeepingCallbacks THEN Obtain(erased, p)
                   ELSE erased
    IN  [invoked EXCEPT !.heap = PtrDestroy(invoked.heap, p)]

RECURSIVE EvictHandles(_, _, _)
EvictHandles(hs, evicted, callback) ==
    IF evicted = << >> THEN hs
    ELSE EvictHandles(EvictHandle(hs, Head(evicted).value, callback),
                      Tail(evicted), callback)

\* A variant of the branch of insert for a present key that assigns the
\* new value to the object the entry refers to.
InsertHandlesWriteThrough(hs, map, key, valuePtr, found, threw) ==
    IF found
    THEN [hs EXCEPT !.heap = [hs.heap EXCEPT
            ![map[key].first].content = hs.heap[valuePtr].content]]
    ELSE IF threw THEN hs
    ELSE [hs EXCEPT !.heap = PtrCopy(hs.heap, valuePtr)]

\* insert, after 'd_map.find(key)' in 'map': 'mapItr->second.first =
\* valuePtr;' for a present key, else the copy of 'valuePtr' into the entry
\* emplaced.
InsertHandles(hs, map, key, valuePtr, found, threw) ==
    IF found
    THEN [hs EXCEPT !.heap = PtrDestroy(PtrCopy(hs.heap, valuePtr),
                                        map[key].first)]
    ELSE IF threw THEN hs
    ELSE [hs EXCEPT !.heap = PtrCopy(hs.heap, valuePtr)]

\* clear: 'd_map.clear();' destroys the handles stored in 'map'.
ClearHandles(hs, map) ==
    [hs EXCEPT !.heap =
        [p \in DOMAIN hs.heap |->
            IF hs.heap[p].count <= MapRefs(map, p) THEN NoObject
            ELSE [hs.heap[p] EXCEPT !.count = @ - MapRefs(map, p)]]]

\* The effect on the objects of the call just made.  The caller of insert
\* passes a handle to an object it has just made, which it destroys after
\* the call, or a handle it holds.
TrackHandles ==
    LET c  == last'
        hs == [heap |-> heap, held |-> held]
        Set(new) == /\ heap' = new.heap
                    /\ held' = new.held
    IN  /\ UNCHANGED <<insHist, evHist, runOk, touched, stage, monitors,
                       threads>>
        /\ CASE c.op = "insert" ->
                  LET p     == c.valuePtr
                      fresh == heap[p].count = 0
                  IN  /\ fresh \/ held[p] # 0
                      /\ \E content \in IF fresh THEN Contents ELSE {0} :
                            LET made    == IF fresh
                                           THEN [hs EXCEPT !.heap =
                                                  MakeShared(heap, p, content)]
                                           ELSE hs
                                evicted == EvictHandles(made, c.evicted,
                                                        c.preCallback)
                                stored  == InsertHandles(evicted, c.midMap,
                                                         c.key, p, c.found,
                                                         c.threw)
                            IN  Set(IF fresh
                                    THEN [stored EXCEPT !.heap =
                                            PtrDestroy(stored.heap, p)]
                                    ELSE stored)
             [] c.op = "tryGetValue" ->
                  Set(IF c.rc = 0 THEN TryGetValueHandle(hs, c.value) ELSE hs)
             [] c.op \in {"popFront", "erase"} ->
                  Set(EvictHandles(hs, c.evicted, c.preCallback))
             [] c.op = "clear" -> Set(ClearHandles(hs, c.preMap))
             [] OTHER -> UNCHANGED handles

\* A caller or callback destroys the handle 'p' it holds.
DropHandle(p) ==
    /\ Idle
    /\ held[p] # 0
    /\ heap' = PtrDestroy(heap, p)
    /\ held' = [held EXCEPT ![p] = 0]
    /\ UNCHANGED <<d_map, d_queue, config, d_postEvictionCallback, last,
                   insHist, evHist, runOk, touched, stage, monitors, threads>>

InitHandles ==
    /\ Init
    /\ d_highWatermark <= NumHandleKeys

NextHandles ==
    \/ \E key \in HandleKeys, valuePtr \in Values,
          failAt \in {"none", "push_back", "emplace"} :
            Insert(key, valuePtr, failAt) /\ TrackHandles
    \/ \E key \in HandleKeys, modifyEvictionQueue \in BOOLEAN :
            TryGetValue(key, modifyEvictionQueue) /\ TrackHandles
    \/ PopFront /\ TrackHandles
    \/ \E key \in HandleKeys : Erase(key) /\ TrackHandles
    \/ \E cb \in Callbacks \cup {NoCallback} :
            SetPostEvictionCallback(cb) /\ TrackHandles
    \/ Clear /\ TrackHandles
    \/ \E p \in Values : DropHandle(p)
    \/ Forget /\ UNCHANGED ghost

SpecHandles == InitHandles /\ [][NextHandles]_vars

\* ------------------------------------------------- calls made by threads
\* A call of a manipulator by thread 't', one step per statement that
\* another thread could observe if the lock did not keep it out.
\* A variant in which 'setPostEvictionCallback' has no lock guard.
ThreadLockWriteUnguardedSet(t, op, key, valuePtr, postEvictionCallback) ==
    /\ pc[t] = "idle"
    /\ IF op = "setPostEvictionCallback"
       THEN d_rwlock' = d_rwlock
       ELSE /\ CanLockWrite(d_rwlock)
            /\ d_rwlock' = RwLockWrite(d_rwlock, t)
    /\ pc' = [pc EXCEPT ![t] = op]
    /\ work' = [work EXCEPT ![t] =
                   [NoWork EXCEPT !.key = key, !.valuePtr = valuePtr,
                                  !.postEvictionCallback = postEvictionCallback]]
    /\ UNCHANGED <<d_map, d_queue, config, d_postEvictionCallback>>

\* 'bslmt::WriteLockGuard<bslmt::ReaderWriterLock> guard(&d_rwlock);' at the
\* head of 'op', called with the given arguments.
ThreadLockWrite(t, op, key, valuePtr, postEvictionCallback) ==
    /\ pc[t] = "idle"
    /\ CanLockWrite(d_rwlock)
    /\ d_rwlock' = RwLockWrite(d_rwlock, t)
    /\ pc' = [pc EXCEPT ![t] = op]
    /\ work' = [work EXCEPT ![t] =
                   [NoWork EXCEPT !.key = key, !.valuePtr = valuePtr,
                                  !.postEvictionCallback = postEvictionCallback]]
    /\ UNCHANGED <<d_map, d_queue, config, d_postEvictionCallback>>

\* insert: the entry test of 'enforceHighWatermark'.
ThreadEnforce(t) ==
    /\ pc[t] = "insert"
    /\ pc' = [pc EXCEPT ![t] = IF BelowHighWatermark(d_map) THEN "find"
                               ELSE "evicting"]
    /\ UNCHANGED <<d_map, d_queue, config, d_postEvictionCallback,
                   d_rwlock, work>>

\* Where thread 't' is after 'evictItem' has run to the working state 'st':
\* inside the callback, at the call it makes of the cache, when the callback
\* invoked last is one that calls the cache; else at 'next'.
AfterEvictItem(st, next) ==
    IF st.calls # << >> /\ st.calls[Len(st.calls)].cb \in ReentrantCallbacks
    THEN "reenter"
    ELSE next

\* insert: one test of the loop of 'enforceHighWatermark' and, if it
\* passes, one 'evictItem'.
ThreadEvictFront(t) ==
    /\ pc[t] = "evicting"
    /\ IF EvictionContinues(d_map)
       THEN IF d_queue # << >> /\ MapFind(d_map, Head(d_queue).key)
            THEN LET st == EvictItem(Working(t), Head(d_queue).key)
                 IN  /\ d_map' = st.map
                     /\ d_queue' = st.queue
                     /\ work' = [work EXCEPT ![t].calls = st.calls,
                                             ![t].evicted = st.evicted]
                     /\ pc' = [pc EXCEPT
                                 ![t] = AfterEvictItem(st, "evicting")]
            ELSE /\ pc' = [pc EXCEPT ![t] = "unlock"]
                 /\ UNCHANGED <<d_map, d_queue, work>>
       ELSE /\ pc' = [pc EXCEPT ![t] = "find"]
            /\ UNCHANGED <<d_map, d_queue, work>>
    /\ UNCHANGED <<config, d_postEvictionCallback, d_rwlock>>

\* insert: 'd_map.find(key)' and the branch taken, up to 'push_back' when
\* the key is absent ('fails': the allocation of the node throws).
ThreadInsertKey(t, fails) ==
    LET key == work[t].key
    IN  /\ pc[t] = "find"
        /\ IF MapFind(d_map, key)
           THEN LET st == InsertPresent(Working(t), key, work[t].valuePtr)
                IN  /\ d_map' = st.map
                    /\ d_queue' = st.queue
                    /\ pc' = [pc EXCEPT ![t] = "unlock"]
           ELSE /\ d_map' = d_map
                /\ d_queue' = IF fails THEN d_queue
                              ELSE ListPushBack(d_queue, key)
                /\ pc' = [pc EXCEPT ![t] = IF fails THEN "unlock"
                                           ELSE "emplace"]
        /\ UNCHANGED <<config, d_postEvictionCallback, d_rwlock, work>>

\* insert: 'd_map.emplace' of the key with the iterator of the node pushed,
\* and the exit of the proctor ('fails': 'emplace' throws and the proctor
\* was not released).
ThreadEmplace(t, fails) ==
    /\ pc[t] = "emplace"
    /\ d_map' = IF fails THEN d_map
                ELSE MapEmplace(d_map, work[t].key,
                                [first  |-> work[t].valuePtr,
                                 second |-> ListLast(d_queue)])
    /\ d_queue' = QueueProctorExit(d_queue, ~fails)
    /\ pc' = [pc EXCEPT ![t] = "unlock"]
    /\ UNCHANGED <<config, d_postEvictionCallback, d_rwlock, work>>

\* The body of 'popFront'.
ThreadPopFront(t) ==
    LET ok == Size(d_map) > 0 /\ d_queue # << >>
                 /\ MapFind(d_map, Head(d_queue).key)
        st == IF ok THEN EvictItem(Working(t), Head(d_queue).key)
              ELSE Working(t)
    IN  /\ pc[t] = "popFront"
        /\ d_map' = st.map
        /\ d_queue' = st.queue
        /\ work' = [work EXCEPT ![t].calls = st.calls,
                                ![t].evicted = st.evicted]
        /\ pc' = [pc EXCEPT ![t] = AfterEvictItem(st, "unlock")]
        /\ UNCHANGED <<config, d_postEvictionCallback, d_rwlock>>

\* The body of 'erase'.
ThreadErase(t) ==
    LET st == IF MapFind(d_map, work[t].key)
              THEN EvictItem(Working(t), work[t].key)
              ELSE Working(t)
    IN  /\ pc[t] = "erase"
        /\ d_map' = st.map
        /\ d_queue' = st.queue
        /\ work' = [work EXCEPT ![t].calls = st.calls,
                                ![t].evicted = st.evicted]
        /\ pc' = [pc EXCEPT ![t] = AfterEvictItem(st, "unlock")]
        /\ UNCHANGED <<config, d_postEvictionCallback, d_rwlock>>

\* The body of 'setPostEvictionCallback'.
ThreadSetCallback(t) ==
    /\ pc[t] = "setPostEvictionCallback"
    /\ d_postEvictionCallback' = work[t].postEvictionCallback
    /\ pc' = [pc EXCEPT ![t] = "unlock"]
    /\ UNCHANGED <<d_map, d_queue, config, d_rwlock, work>>

\* The body of 'clear'.
ThreadClear(t) ==
    /\ pc[t] = "clear"
    /\ d_map' = << >>
    /\ d_queue' = << >>
    /\ pc' = [pc EXCEPT ![t] = "unlock"]
    /\ UNCHANGED <<config, d_postEvictionCallback, d_rwlock, work>>

\* The destructor of the lock guard; the call returns.
ThreadUnlock(t) ==
    /\ pc[t] = "unlock"
    /\ d_rwlock' = RwUnlock(d_rwlock, t)
    /\ pc' = [pc EXCEPT ![t] = "idle"]
    /\ work' = [work EXCEPT ![t] = NoWork]
    /\ UNCHANGED <<d_map, d_queue, config, d_postEvictionCallback>>

sequential == <<last, insHist, evHist, runOk, touched, stage, monitors,
                handles>>

NextThreads ==
    \/ \E t \in Threads, key \in Keys, valuePtr \in Values :
          /\ ThreadLockWrite(t, "insert", key, valuePtr, NoCallback)
          /\ UNCHANGED sequential
    \/ \E t \in Threads :
          /\ ThreadLockWrite(t, "popFront", NoKey, NullPtr, NoCallback)
          /\ UNCHANGED sequential
    \/ \E t \in Threads, key \in Keys :
          /\ ThreadLockWrite(t, "erase", key, NullPtr, NoCallback)
          /\ UNCHANGED sequential
    \/ \E t \in Threads, cb \in Callbacks \cup {NoCallback} :
          /\ ThreadLockWrite(t, "setPostEvictionCallback", NoKey, NullPtr, cb)
          /\ UNCHANGED sequential
    \/ \E t \in Threads :
          /\ ThreadLockWrite(t, "clear", NoKey, NullPtr, NoCallback)
          /\ UNCHANGED sequential
    \/ \E t \in Threads : ThreadEnforce(t) /\ UNCHANGED sequential
    \/ \E t \in Threads : ThreadEvictFront(t) /\ UNCHANGED sequential
    \/ \E t \in Threads, fails \in BOOLEAN :
          ThreadInsertKey(t, fails) /\ UNCHANGED sequential
    \/ \E t \in Threads, fails \in BOOLEAN :
          ThreadEmplace(t, fails) /\ UNCHANGED sequential
    \/ \E t \in Threads : ThreadPopFront(t) /\ UNCHANGED sequential
    \/ \E t \in Threads : ThreadErase(t) /\ UNCHANGED sequential
    \/ \E t \in Threads : ThreadSetCallback(t) /\ UNCHANGED sequential
    \/ \E t \in Threads : ThreadClear(t) /\ UNCHANGED sequential
    \/ \E t \in Threads : ThreadUnlock(t) /\ UNCHANGED sequential

SpecThreads == Init /\ [][NextThreads]_vars

\* ------------------------------------- evictItem and size(), step by step
\* The manipulators of 'NextThreads' with 'evictItem' in two steps, the
\* removal and the test and invocation of the callback, and calls of
\* 'size()' made by the other threads and by the callback.

\* A variant of the removal that leaves the node in the queue.
RemoveItemKeepsNode(t, key, resume) ==
    LET value == d_map[key].first
    IN  /\ d_queue' = d_queue
        /\ d_map' = MapErase(d_map, key)
        /\ work' = [work EXCEPT
                      ![t].captured = value,
                      ![t].evicted = Append(@, [key |-> key, value |-> value]),
                      ![t].resume = resume]
        /\ pc' = [pc EXCEPT ![t] = "callback"]

\* evictItem, up to the test of the callback: 'ValuePtrType value =
\* mapItr->second.first; d_queue.erase(mapItr->second.second);
\* d_map.erase(mapItr);' ('resume': where the caller of 'evictItem'
\* continues).
RemoveItem(t, key, resume) ==
    LET value == d_map[key].first
    IN  /\ d_queue' = ListErase(d_queue, d_map[key].second)
        /\ d_map' = MapErase(d_map, key)
        /\ work' = [work EXCEPT
                      ![t].captured = value,
                      ![t].evicted = Append(@, [key |-> key, value |-> value]),
                      ![t].resume = resume]
        /\ pc' = [pc EXCEPT ![t] = "callback"]

\* insert: one test of the loop of 'enforceHighWatermark' and, if it
\* passes, the removal done by 'evictItem'.
ThreadEvictRemove(t) ==
    /\ pc[t] = "evicting"
    /\ IF EvictionContinues(d_map)
       THEN IF d_queue # << >> /\ MapFind(d_map, Head(d_queue).key)
            THEN RemoveItem(t, Head(d_queue).key, "evicting")
            ELSE /\ pc' = [pc EXCEPT ![t] = "unlock"]
                 /\ UNCHANGED <<d_map, d_queue, work>>
       ELSE /\ pc' = [pc EXCEPT ![t] = "find"]
            /\ UNCHANGED <<d_map, d_queue, work>>
    /\ UNCHANGED <<config, d_postEvictionCallback, d_rwlock>>

\* popFront, up to the test of the callback.
ThreadPopFrontRemove(t) ==
    /\ pc[t] = "popFront"
    /\ IF Size(d_map) > 0 /\ d_queue # << >>
          /\ MapFind(d_map, Head(d_queue).key)
       THEN RemoveItem(t, Head(d_queue).key, "unlock")
       ELSE /\ pc' = [pc EXCEPT ![t] = "unlock"]
            /\ UNCHANGED <<d_map, d_queue, work>>
    /\ UNCHANGED <<config, d_postEvictionCallback, d_rwlock>>

\* erase, up to the test of the callback.
ThreadEraseRemove(t) ==
    /\ pc[t] = "erase"
    /\ IF MapFind(d_map, work[t].key)
       THEN RemoveItem(t, work[t].key, "unlock")
       ELSE /\ pc' = [pc EXCEPT ![t] = "unlock"]
            /\ UNCHANGED <<d_map, d_queue, work>>
    /\ UNCHANGED <<config, d_postEvictionCallback, d_rwlock>>

\* evictItem: 'if (d_postEvictionCallback) { d_postEvictionCallback(value);
\* }' and the return to the caller ('callsSize': the callback calls
\* 'size()' of the cache).
ThreadCallback(t, callsSize) ==
    /\ pc[t] = "callback"
    /\ callsSize => d_postEvictionCallback # NoCallback
    /\ work' = IF d_postEvictionCallback # NoCallback
               THEN [work EXCEPT
                       ![t].calls = Append(@, [cb    |-> d_postEvictionCallback,
                                               value |-> work[t].captured]),
                       ![t].sizes = IF callsSize THEN <<Size(d_map)>> ELSE @]
               ELSE work
    /\ pc' = [pc EXCEPT ![t] = work[t].resume]
    /\ UNCHANGED <<d_map, d_queue, config, d_postEvictionCallback, d_rwlock>>

\* A variant of 'size()' that takes the read lock.
ThreadSizeLocked(t) ==
    /\ pc[t] = "idle"
    /\ CanLockRead(d_rwlock)
    /\ pc' = [pc EXCEPT ![t] = "size"]
    /\ work' = [work EXCEPT ![t] = [NoWork EXCEPT !.op = "size",
                                                  !.sizes = <<Size(d_map)>>]]
    /\ UNCHANGED <<d_map, d_queue, config, d_postEvictionCallback, d_rwlock>>

\* size(): 'return d_map.size();', with no lock call.
ThreadSize(t) ==
    /\ pc[t] = "idle"
    /\ pc' = [pc EXCEPT ![t] = "size"]
    /\ work' = [work EXCEPT ![t] = [NoWork EXCEPT !.op = "size",
                                                  !.sizes = <<Size(d_map)>>]]
    /\ UNCHANGED <<d_map, d_queue, config, d_postEvictionCallback, d_rwlock>>

\* The caller of 'size()' has taken the result.
ThreadSizeReturn(t) ==
    /\ pc[t] = "size"
    /\ pc' = [pc EXCEPT ![t] = "idle"]
    /\ work' = [work EXCEPT ![t] = NoWork]
    /\ UNCHANGED <<d_map, d_queue, config, d_postEvictionCallback, d_rwlock>>

\* A cache whose high watermark the keys of the threads reach; its policy,
\* which none of these steps reads, is LRU.
InitCallback ==
    /\ Init
    /\ d_evictionPolicy = e_LRU
    /\ d_highWatermark <= NumKeys

NextCallback ==
    \/ \E t \in Threads, key \in Keys, valuePtr \in Values :
          /\ ThreadLockWrite(t, "insert", key, valuePtr, NoCallback)
          /\ UNCHANGED sequential
    \/ \E t \in Threads :
          /\ ThreadLockWrite(t, "popFront", NoKey, NullPtr, NoCallback)
          /\ UNCHANGED sequential
    \/ \E t \in Threads, key \in Keys :
          /\ ThreadLockWrite(t, "erase", key, NullPtr, NoCallback)
          /\ UNCHANGED sequential
    \/ \E t \in Threads, cb \in {"cbA", NoCallback} :
          /\ ThreadLockWrite(t, "setPostEvictionCallback", NoKey, NullPtr, cb)
          /\ UNCHANGED sequential
    \/ \E t \in Threads :
          /\ ThreadLockWrite(t, "clear", NoKey, NullPtr, NoCallback)
          /\ UNCHANGED sequential
    \/ \E t \in Threads : ThreadEnforce(t) /\ UNCHANGED sequential
    \/ \E t \in Threads : ThreadEvictRemove(t) /\ UNCHANGED sequential
    \/ \E t \in Threads, callsSize \in BOOLEAN :
          ThreadCallback(t, callsSize) /\ UNCHANGED sequential
    \/ \E t \in Threads, fails \in BOOLEAN :
          ThreadInsertKey(t, fails) /\ UNCHANGED sequential
    \/ \E t \in Threads, fails \in BOOLEAN :
          ThreadEmplace(t, fails) /\ UNCHANGED sequential
    \/ \E t \in Threads : ThreadPopFrontRemove(t) /\ UNCHANGED sequential
    \/ \E t \in Threads : ThreadEraseRemove(t) /\ UNCHANGED sequential
    \/ \E t \in Threads : ThreadSetCallback(t) /\ UNCHANGED sequential
    \/ \E t \in Threads : ThreadClear(t) /\ UNCHANGED sequential
    \/ \E t \in Threads : ThreadUnlock(t) /\ UNCHANGED sequential
    \/ \E t \in Threads : ThreadSize(t) /\ UNCHANGED sequential
    \/ \E t \in Threads : ThreadSizeReturn(t) /\ UNCHANGED sequential

SpecCallback == InitCallback /\ [][NextCallback]_vars

\* ------------------------------------------- concurrent readers and writers
\* Calls of every locked method by the threads, each call starting with the
\* lock call it blocks in.
WriteOps == {"insert", "popFront", "erase", "setPostEvictionCallback",
             "clear"}

\* The lock call a call starts with: the write lock guard of a
\* manipulator, the read lock guard of 'visit', the prelock of
\* 'tryGetValue'.
LockCalled(op, modifyEvictionQueue) ==
    IF op \in WriteOps THEN "lockWrite"
    ELSE IF op = "visit" THEN "lockRead"
    ELSE Prelock(modifyEvictionQueue)[1]

\* A variant in which a manipulator polls for the write lock instead of
\* waiting in 'lockWrite'.
ThreadCallPolls(t, op, key, valuePtr, postEvictionCallback, modifyEvictionQueue, stopKeys) ==
    /\ pc[t] = "idle"
    /\ pc' = [pc EXCEPT ![t] = "lock"]
    /\ work' = [work EXCEPT ![t] =
                   [NoWork EXCEPT !.op = op, !.key = key,
                       !.valuePtr = valuePtr,
                       !.postEvictionCallback = postEvictionCallback,
                       !.modifyEvictionQueue = modifyEvictionQueue,
                       !.stopKeys = stopKeys]]
    /\ UNCHANGED <<d_map, d_queue, config, d_postEvictionCallback, d_rwlock>>

\* Thread 't' calls 'op' with the given arguments and reaches the lock call.
ThreadCall(t, op, key, valuePtr, postEvictionCallback, modifyEvictionQueue, stopKeys) ==
    /\ pc[t] = "idle"
    /\ pc' = [pc EXCEPT ![t] = "lock"]
    /\ work' = [work EXCEPT ![t] =
                   [NoWork EXCEPT !.op = op, !.key = key,
                       !.valuePtr = valuePtr,
                       !.postEvictionCallback = postEvictionCallback,
                       !.modifyEvictionQueue = modifyEvictionQueue,
                       !.stopKeys = stopKeys]]
    /\ d_rwlock' = IF LockCalled(op, modifyEvictionQueue) = "lockWrite"
                   THEN RwRequestWrite(d_rwlock, t)
                   ELSE d_rwlock
    /\ UNCHANGED <<d_map, d_queue, config, d_postEvictionCallback>>

\* The first statement of the body of 'op'.
Body(op) == IF op = "tryGetValue" THEN "lookup" ELSE op

\* A variant in which 'tryGetValue' takes no lock.
ThreadAcquireUnlockedRead(t) ==
    LET how == IF pc[t] = "lock"
               THEN LockCalled(work[t].op, work[t].modifyEvictionQueue)
               ELSE "lockWrite"
    IN  /\ pc[t] \in {"lock", "reenter"}
        /\ CASE work[t].op = "tryGetValue" /\ pc[t] = "lock" ->
                    d_rwlock' = d_rwlock
              [] OTHER ->
                    CASE how = "lockWrite" ->
                            /\ CanLockWrite(d_rwlock)
                            /\ d_rwlock' = RwLockWrite(d_rwlock, t)
                      [] how = "lockRead" ->
                            /\ CanLockRead(d_rwlock)
                            /\ d_rwlock' = RwLockRead(d_rwlock, t)
                      [] how = "lockReadReserveWrite" ->
                            /\ CanLockReadReserveWrite(d_rwlock)
                            /\ d_rwlock' = RwLockReadReserveWrite(d_rwlock, t)
        /\ pc' = [pc EXCEPT ![t] = Body(work[t].op)]
        /\ UNCHANGED <<d_map, d_queue, config, d_postEvictionCallback, work>>

\* A variant in which 'visit' takes no lock.
ThreadAcquireUnlockedVisit(t) ==
    LET how == IF pc[t] = "lock"
               THEN LockCalled(work[t].op, work[t].modifyEvictionQueue)
               ELSE "lockWrite"
    IN  /\ pc[t] \in {"lock", "reenter"}
        /\ CASE work[t].op = "visit" /\ pc[t] = "lock" ->
                    d_rwlock' = d_rwlock
              [] OTHER ->
                    CASE how = "lockWrite" ->
                            /\ CanLockWrite(d_rwlock)
                            /\ d_rwlock' = RwLockWrite(d_rwlock, t)
                      [] how = "lockRead" ->
                            /\ CanLockRead(d_rwlock)
                            /\ d_rwlock' = RwLockRead(d_rwlock, t)
                      [] how = "lockReadReserveWrite" ->
                            /\ CanLockReadReserveWrite(d_rwlock)
                            /\ d_rwlock' = RwLockReadReserveWrite(d_rwlock, t)
        /\ pc' = [pc EXCEPT ![t] = Body(work[t].op)]
        /\ UNCHANGED <<d_map, d_queue, config, d_postEvictionCallback, work>>

\* The lock call returns: of the call thread 't' is making, or of the call a
\* callback invoked by 't' makes (any method of the cache, each of which
\* starts with one of the three lock calls).
ThreadAcquire(t) ==
    /\ pc[t] \in {"lock", "reenter"}
    /\ \E how \in IF pc[t] = "lock"
                   THEN {LockCalled(work[t].op, work[t].modifyEvictionQueue)}
                   ELSE {"lockWrite", "lockRead", "lockReadReserveWrite"} :
          CASE how = "lockWrite" ->
                  /\ CanLockWrite(d_rwlock)
                  /\ d_rwlock' = RwLockWrite(d_rwlock, t)
            [] how = "lockRead" ->
                  /\ CanLockRead(d_rwlock)
                  /\ d_rwlock' = RwLockRead(d_rwlock, t)
            [] how = "lockReadReserveWrite" ->
                  /\ CanLockReadReserveWrite(d_rwlock)
                  /\ d_rwlock' = RwLockReadReserveWrite(d_rwlock, t)
    /\ pc' = [pc EXCEPT ![t] = Body(work[t].op)]
    /\ UNCHANGED <<d_map, d_queue, config, d_postEvictionCallback, work>>

\* A variant of the miss path that returns with the lock held.
ThreadLookupMissKeepsLock(t) ==
    LET key == work[t].key
    IN  /\ pc[t] = "lookup"
        /\ IF ~MapFind(d_map, key)
           THEN /\ pc' = [pc EXCEPT ![t] = "idle"]
                /\ work' = [work EXCEPT ![t] = NoWork]
                /\ d_rwlock' = d_rwlock
           ELSE LET queueItr == d_map[key].second
                    move == MayReorder(work[t].modifyEvictionQueue)
                               /\ NotAtBack(d_queue, queueItr)
                IN  /\ work' = [work EXCEPT ![t].value = d_map[key].first,
                                            ![t].queueItr = queueItr]
                    /\ pc' = [pc EXCEPT ![t] = IF move THEN "upgrade"
                                               ELSE "unlock"]
                    /\ d_rwlock' = IF move THEN RwRequestWrite(d_rwlock, t)
                                   ELSE d_rwlock
        /\ UNCHANGED <<d_map, d_queue, config, d_postEvictionCallback>>

\* tryGetValue: 'd_map.find(key)', the copy of the handle and the test of
\* the position, up to the call of 'upgradeToWriteLock'.
ThreadLookup(t) ==
    LET key == work[t].key
    IN  /\ pc[t] = "lookup"
        /\ IF ~MapFind(d_map, key)
           THEN /\ pc' = [pc EXCEPT ![t] = "unlock"]
                /\ UNCHANGED <<work, d_rwlock>>
           ELSE LET queueItr == d_map[key].second
                    move == MayReorder(work[t].modifyEvictionQueue)
                               /\ NotAtBack(d_queue, queueItr)
                IN  /\ work' = [work EXCEPT ![t].value = d_map[key].first,
                                            ![t].queueItr = queueItr]
                    /\ pc' = [pc EXCEPT ![t] = IF move THEN "upgrade"
                                               ELSE "unlock"]
                    /\ d_rwlock' = IF move THEN RwRequestWrite(d_rwlock, t)
                                   ELSE d_rwlock
        /\ UNCHANGED <<d_map, d_queue, config, d_postEvictionCallback>>

\* tryGetValue: 'upgradeToWriteLock' returns.  Called by the holder of the
\* reservation it is atomic; called by a plain reader it releases the read
\* lock and then waits for the write lock.
ThreadUpgrade(t) ==
    /\ pc[t] \in {"upgrade", "reacquire"}
    /\ CASE pc[t] = "upgrade" /\ d_rwlock.reserved = t ->
                /\ CanUpgrade(d_rwlock, t)
                /\ d_rwlock' = RwUpgradeToWriteLock(d_rwlock, t)
                /\ pc' = [pc EXCEPT ![t] = "splice"]
          [] pc[t] = "upgrade" /\ d_rwlock.reserved # t ->
                /\ d_rwlock' = [d_rwlock EXCEPT !.readers = @ \ {t}]
                /\ pc' = [pc EXCEPT ![t] = "reacquire"]
          [] pc[t] = "reacquire" ->
                /\ CanLockWrite(d_rwlock)
                /\ d_rwlock' = RwLockWrite(d_rwlock, t)
                /\ pc' = [pc EXCEPT ![t] = "splice"]
    /\ UNCHANGED <<d_map, d_queue, config, d_postEvictionCallback, work>>

\* tryGetValue: 'd_queue.splice(d_queue.end(), d_queue, queueItr)'.
ThreadSplice(t) ==
    /\ pc[t] = "splice"
    /\ d_queue' = ListSplice(d_queue, work[t].queueItr)
    /\ pc' = [pc EXCEPT ![t] = "unlock"]
    /\ UNCHANGED <<d_map, config, d_postEvictionCallback, d_rwlock, work>>

\* visit: one test of the loop and, if it passes, one call of the visitor,
\* which returns 'false' exactly for the keys in 'stopKeys'.
ThreadVisitStep(t) ==
    /\ pc[t] = "visit"
    /\ IF work[t].visited >= Len(d_queue)
       THEN /\ pc' = [pc EXCEPT ![t] = "unlock"]
            /\ work' = work
       ELSE LET key == d_queue[work[t].visited + 1].key
            IN  /\ work' = [work EXCEPT
                              ![t].visited = @ + 1,
                              ![t].seen =
                                 IF MapFind(d_map, key)
                                 THEN Append(@, [key   |-> key,
                                                 value |-> d_map[key].first])
                                 ELSE @]
                /\ pc' = [pc EXCEPT
                            ![t] = IF MapFind(d_map, key)
                                      /\ key \notin work[t].stopKeys
                                   THEN "visit" ELSE "unlock"]
    /\ UNCHANGED <<d_map, d_queue, config, d_postEvictionCallback, d_rwlock>>

\* A cache shared by the threads, its watermarks within the number of keys
\* they use.
InitConcurrent ==
    /\ Init
    /\ d_highWatermark <= NumConcKeys

NextConcurrent ==
    \/ \E t \in Threads, key \in ConcKeys, valuePtr \in LruValues :
          /\ ThreadCall(t, "insert", key, valuePtr, NoCallback, FALSE, {})
          /\ UNCHANGED sequential
    \/ \E t \in Threads :
          /\ ThreadCall(t, "popFront", NoKey, NullPtr, NoCallback, FALSE, {})
          /\ UNCHANGED sequential
    \/ \E t \in Threads, key \in ConcKeys :
          /\ ThreadCall(t, "erase", key, NullPtr, NoCallback, FALSE, {})
          /\ UNCHANGED sequential
    \/ \E t \in Threads, cb \in {"cbA", NoCallback} :
          /\ ThreadCall(t, "setPostEvictionCallback", NoKey, NullPtr, cb,
                        FALSE, {})
          /\ UNCHANGED sequential
    \/ \E t \in Threads :
          /\ ThreadCall(t, "clear", NoKey, NullPtr, NoCallback, FALSE, {})
          /\ UNCHANGED sequential
    \/ \E t \in Threads, key \in ConcKeys, modifyEvictionQueue \in BOOLEAN :
          /\ ThreadCall(t, "tryGetValue", key, NullPtr, NoCallback,
                        modifyEvictionQueue, {})
          /\ UNCHANGED sequential
    \/ \E t \in Threads, stopKeys \in {{}, ConcKeys} :
          /\ ThreadCall(t, "visit", NoKey, NullPtr, NoCallback, FALSE,
                        stopKeys)
          /\ UNCHANGED sequential
    \/ \E t \in Threads : ThreadAcquire(t) /\ UNCHANGED sequential
    \/ \E t \in Threads : ThreadEnforce(t) /\ UNCHANGED sequential
    \/ \E t \in Threads : ThreadEvictFront(t) /\ UNCHANGED sequential
    \/ \E t \in Threads, fails \in BOOLEAN :
          ThreadInsertKey(t, fails) /\ UNCHANGED sequential
    \/ \E t \in Threads, fails \in BOOLEAN :
          ThreadEmplace(t, fails) /\ UNCHANGED sequential
    \/ \E t \in Threads : ThreadPopFront(t) /\ UNCHANGED sequential
    \/ \E t \in Threads : ThreadErase(t) /\ UNCHANGED sequential
    \/ \E t \in Threads : ThreadSetCallback(t) /\ UNCHANGED sequential
    \/ \E t \in Threads : ThreadClear(t) /\ UNCHANGED sequential
    \/ \E t \in Threads : ThreadLookup(t) /\ UNCHANGED sequential
    \/ \E t \in Threads : ThreadUpgrade(t) /\ UNCHANGED sequential
    \/ \E t \in Threads : ThreadSplice(t) /\ UNCHANGED sequential
    \/ \E t \in Threads : ThreadVisitStep(t) /\ UNCHANGED sequential
    \/ \E t \in Threads : ThreadUnlock(t) /\ UNCHANGED sequential

SpecConcurrent == InitConcurrent /\ [][NextConcurrent]_vars

\* The same threads, which may also install a callback that calls the
\* cache.
NextReenter ==
    \/ NextConcurrent
    \/ \E t \in Threads, cb \in ReentrantCallbacks :
          /\ ThreadCall(t, "setPostEvictionCallback", NoKey, NullPtr, cb,
                        FALSE, {})
          /\ UNCHANGED sequential

SpecReenter == InitConcurrent /\ [][NextReenter]_vars

\* The statements of a call that do not wait: every thread that is at one
\* of them is scheduled.
ThreadRuns(t) ==
    /\ \/ ThreadEnforce(t)
       \/ ThreadEvictFront(t)
       \/ \E fails \in BOOLEAN : ThreadInsertKey(t, fails)
       \/ \E fails \in BOOLEAN : ThreadEmplace(t, fails)
       \/ ThreadPopFront(t)
       \/ ThreadErase(t)
       \/ ThreadSetCallback(t)
       \/ ThreadClear(t)
       \/ ThreadLookup(t)
       \/ ThreadSplice(t)
       \/ ThreadVisitStep(t)
       \/ ThreadUnlock(t)
    /\ UNCHANGED sequential

\* Fair scheduling: a thread that can run does; a thread waiting in a lock
\* call that could return again and again is not passed over forever.
Fairness ==
    \A t \in Threads :
       /\ WF_vars(ThreadRuns(t))
       /\ SF_vars(ThreadAcquire(t) /\ UNCHANGED sequential)
       /\ SF_vars(ThreadUpgrade(t) /\ UNCHANGED sequential)

SpecFair == InitConcurrent /\ [][NextConcurrent]_vars /\ Fairness

\* ======================================================================
\* Properties
\* ======================================================================
IsPrefix(a, b) == Len(a) <= Len(b) /\ SubSeq(b, 1, Len(a)) = a

Occurrences(seq, key) == Cardinality({i \in 1..Len(seq) : seq[i] = key})

\* C1 (bijection invariant): between calls the keys of the map are the keys
\* of the eviction queue, no key occurs twice in the queue, the iterator
\* stored with each key is the queue node holding that key, and size() is
\* both the map count and the queue length; no BSLS_ASSERT fails.
C1_Bijection ==
    /\ DOMAIN d_map = Range(QueueKeys(d_queue))
    /\ \A i, j \in 1..Len(d_queue) :
          i # j => /\ d_queue[i].key # d_queue[j].key
                   /\ d_queue[i].node # d_queue[j].node
    /\ \A k \in DOMAIN d_map :
          \E i \in 1..Len(d_queue) : /\ d_queue[i].node = d_map[k].second
                                     /\ d_queue[i].key = k
    /\ Size(d_map) = Len(d_queue)
    /\ (last.op = "size" => last.rc = Len(d_queue))
    /\ ~last.asserted

C1_Witness ==
    /\ last.op = "insert"
    /\ last.evicted # << >>
    /\ Len(d_queue) >= 2

\* C2 (eviction start and stop): an insert called with size() >= high
\* watermark evicts the first size() - (low - 1) keys of the queue, in queue
\* order and with the values they held, which leaves size() == low - 1 (the
\* pass does not stop while size() >= low and the cache is non-empty); the
\* inserted key is added only after that, at the back.
C2_EvictionStartStop ==
    (last.op = "insert" /\ Size(last.preMap) >= d_highWatermark) =>
       LET pre == QueueKeys(last.preQueue)
           n   == Size(last.preMap) - (d_lowWatermark - 1)
       IN  /\ n >= 1 /\ n <= Len(pre)
           /\ EvictedKeys(last.evicted) = SubSeq(pre, 1, n)
           /\ \A i \in 1..Len(last.evicted) :
                 /\ last.evicted[i].key \in DOMAIN last.preMap
                 /\ last.evicted[i].value
                       = last.preMap[last.evicted[i].key].first
           /\ QueueKeys(last.midQueue) = SubSeq(pre, n + 1, Len(pre))
           /\ DOMAIN last.midMap = Range(SubSeq(pre, n + 1, Len(pre)))
           /\ last.midSize = d_lowWatermark - 1
           /\ ~(last.midSize >= d_lowWatermark /\ last.midSize > 0)
           /\ (~last.threw =>
                 QueueKeys(d_queue)
                    = Append(Remove(QueueKeys(last.midQueue), last.key),
                             last.key))

C2_Witness ==
    /\ last.op = "insert"
    /\ ~last.threw
    /\ Len(last.evicted) >= 2
    /\ Len(d_queue) >= 1

\* C3 as stated (watermark law): after any insert returns, size() < high
\* watermark unless low == high == 1.
C3_Original ==
    (last.op = "insert" /\ ~last.threw) =>
       \/ Size(d_map) < d_highWatermark
       \/ (d_lowWatermark = 1 /\ d_highWatermark = 1)

\* C3 as amended: after any insert, size() <= high watermark, and
\* size() == high watermark only when the insert added an absent key to a
\* cache that held high - 1 entries after watermark enforcement.
C3_WatermarkLaw ==
    last.op = "insert" =>
       /\ Size(d_map) <= d_highWatermark
       /\ (Size(d_map) = d_highWatermark =>
              /\ ~last.found
              /\ ~last.threw
              /\ last.midSize = d_highWatermark - 1)

C3_Witness ==
    /\ last.op = "insert"
    /\ ~last.threw
    /\ d_lowWatermark < d_highWatermark
    /\ Size(d_map) = d_highWatermark
    /\ last.evicted = << >>

\* C4 (no early eviction): an insert called with size() < high watermark
\* evicts nothing and invokes no callback; tryGetValue, visit,
\* setPostEvictionCallback and the accessors remove no entry and invoke no
\* callback.
C4_NoEarlyEviction ==
    /\ (last.op = "insert" /\ Size(last.preMap) < d_highWatermark) =>
          /\ last.evicted = << >>
          /\ last.calls = << >>
          /\ last.midMap = last.preMap
          /\ last.midQueue = last.preQueue
          /\ DOMAIN last.preMap \subseteq DOMAIN d_map
          /\ Range(QueueKeys(last.preQueue)) \subseteq Range(QueueKeys(d_queue))
    /\ (last.op \in {"tryGetValue", "visit", "setPostEvictionCallback",
                     "size", "evictionPolicy", "lowWatermark",
                     "highWatermark"}) =>
          /\ last.evicted = << >>
          /\ last.calls = << >>
          /\ d_map = last.preMap
          /\ Range(QueueKeys(d_queue)) = Range(QueueKeys(last.preQueue))
          /\ Len(d_queue) = Len(last.preQueue)

C4_Witness ==
    /\ last.op = "insert"
    /\ Size(last.preMap) >= d_lowWatermark
    /\ Size(last.preMap) < d_highWatermark
    /\ d_postEvictionCallback # NoCallback
    /\ ~last.threw

\* C5 (fixed maximum size): with low == high == N, size() never exceeds N,
\* and an insert of a new key at size() == N evicts exactly the front entry
\* and returns with size() == N.
C5_FixedMaximumSize ==
    d_lowWatermark = d_highWatermark =>
       /\ Size(d_map) <= d_highWatermark
       /\ (/\ last.op = "insert"
           /\ ~last.threw
           /\ Size(last.preMap) = d_highWatermark
           /\ last.key \notin DOMAIN last.preMap) =>
              /\ Len(last.evicted) = 1
              /\ last.evicted[1].key = Head(last.preQueue).key
              /\ Size(d_map) = d_highWatermark

C5_Witness ==
    /\ d_lowWatermark = d_highWatermark
    /\ d_highWatermark >= 2
    /\ last.op = "insert"
    /\ ~last.threw
    /\ Size(last.preMap) = d_highWatermark
    /\ last.key \notin DOMAIN last.preMap

\* C6 (upsert of a present key): when the key is in the map at the lookup
\* step of insert, its value handle becomes the new one, the key moves to
\* the back of the queue, it has a single queue entry, size() is what it was
\* after watermark enforcement, and the other keys keep their values and
\* their relative order; the call does not throw.
C6_UpsertPresent ==
    (last.op = "insert" /\ last.found) =>
       LET mid == QueueKeys(last.midQueue)
           fin == QueueKeys(d_queue)
           k   == last.key
       IN  /\ ~last.threw
           /\ k \in DOMAIN last.midMap
           /\ DOMAIN d_map = DOMAIN last.midMap
           /\ d_map[k].first = last.valuePtr
           /\ fin # << >> /\ fin[Len(fin)] = k
           /\ Occurrences(fin, k) = 1
           /\ Size(d_map) = last.midSize
           /\ Remove(fin, k) = Remove(mid, k)
           /\ \A o \in (DOMAIN d_map) \ {k} : d_map[o] = last.midMap[o]

C6_Witness ==
    /\ last.op = "insert"
    /\ last.found
    /\ d_evictionPolicy = e_FIFO
    /\ Len(d_queue) = 3
    /\ Head(last.midQueue).key = last.key
    /\ last.midMap[last.key].first # last.valuePtr

\* C7 (insert of an absent key): the key is appended at the back of the
\* queue and mapped to the given handle, size() is one more than after
\* watermark enforcement, and every other entry keeps its value, its queue
\* node and its place in the order.
C7_InsertAbsent ==
    (last.op = "insert" /\ ~last.found /\ ~last.threw) =>
       /\ QueueKeys(d_queue) = Append(QueueKeys(last.midQueue), last.key)
       /\ last.key \notin DOMAIN last.midMap
       /\ DOMAIN d_map = (DOMAIN last.midMap) \cup {last.key}
       /\ d_map[last.key].first = last.valuePtr
       /\ Size(d_map) = last.midSize + 1
       /\ \A o \in DOMAIN last.midMap : d_map[o] = last.midMap[o]

C7_Witness ==
    /\ last.op = "insert"
    /\ ~last.found
    /\ ~last.threw
    /\ Len(last.midQueue) = 2
    /\ Len(d_queue) = 3

\* C8 (round trip): a tryGetValue(k) made immediately after an insert(k, v)
\* that returned returns 0 and yields v, also when the insert evicted
\* entries and when k was present before.
C8_RoundTrip ==
    (last.op = "tryGetValue" /\ last.prior.insert) =>
       /\ last.rc = 0
       /\ last.assigned
       /\ last.value = last.prior.valuePtr

C8_Witness ==
    /\ last.op = "tryGetValue"
    /\ last.prior.insert
    /\ last.prior.found
    /\ last.prior.evictions >= 1

\* C9 (miss): tryGetValue of a key that is not in the map returns 1 and
\* leaves the map, the queue, the callback and the caller's handle as they
\* were, and makes no call that acquires the write lock.
C9_MissChangesNothing ==
    (last.op = "tryGetValue" /\ ~MapFind(last.preMap, last.key)) =>
       /\ last.rc = 1
       /\ d_map = last.preMap
       /\ d_queue = last.preQueue
       /\ d_postEvictionCallback = last.preCallback
       /\ ~last.assigned
       /\ last.calls = << >>
       /\ Range(last.locks) \cap {"lockWrite", "upgradeToWriteLock"} = {}

C9_Witness ==
    /\ last.op = "tryGetValue"
    /\ ~MapFind(last.preMap, last.key)
    /\ d_evictionPolicy = e_LRU
    /\ last.modifyEvictionQueue
    /\ Len(d_queue) >= 2

\* C10 (FIFO order law): under FIFO no tryGetValue changes the queue, and in
\* a run of inserts of distinct keys into an empty cache the keys evicted so
\* far (by watermark enforcement or popFront) are, in order, the first keys
\* inserted, the queue holding the rest in insertion order.
C10_FifoOrder ==
    d_evictionPolicy = e_FIFO =>
       /\ (last.op = "tryGetValue" => d_queue = last.preQueue)
       /\ (runOk =>
              /\ IsPrefix(evHist, insHist)
              /\ QueueKeys(d_queue)
                    = SubSeq(insHist, Len(evHist) + 1, Len(insHist)))

C10_Witness ==
    /\ d_evictionPolicy = e_FIFO
    /\ runOk
    /\ Len(evHist) >= 1
    /\ last.op = "tryGetValue"
    /\ last.modifyEvictionQueue
    /\ last.rc = 0
    /\ Len(d_queue) >= 2
    /\ Head(d_queue).key = last.key

\* C11 (LRU order law): under LRU the eviction queue lists the present keys
\* in order of their last touch (an insert that returned, or a successful
\* tryGetValue with modifyEvictionQueue = true), least recently touched at
\* the front, and the keys a call evicts by watermark enforcement or
\* popFront are the first keys of the queue as it was; with low = 2 and
\* high = 3, insert 1, 2, 3, read 1, insert 4 evicts 2 first and keeps 1.
C11_LruOrder ==
    d_evictionPolicy = e_LRU =>
       /\ QueueKeys(d_queue) = touched
       /\ (last.op \in {"insert", "popFront"} =>
              IsPrefix(EvictedKeys(last.evicted), QueueKeys(last.preQueue)))
       /\ (d_lowWatermark = 2 /\ d_highWatermark = 3) =>
              /\ (stage = 4 => QueueKeys(d_queue) = <<2, 3, 1>>)
              /\ (stage = 5 /\ last.op = "insert" =>
                     /\ last.evicted # << >>
                     /\ last.evicted[1].key = 2
                     /\ 1 \notin Range(EvictedKeys(last.evicted))
                     /\ MapFind(d_map, 1))

C11_Witness ==
    /\ d_evictionPolicy = e_LRU
    /\ d_lowWatermark = 2
    /\ d_highWatermark = 3
    /\ stage = 5
    /\ last.op = "insert"
    /\ last.key = 4
    /\ QueueKeys(last.preQueue) = <<2, 3, 1>>
    /\ touched = <<1, 4>>

\* C12 (successful tryGetValue): a tryGetValue of a present key returns 0
\* and yields the stored value handle; the map and size() are unchanged;
\* under LRU with modifyEvictionQueue = true the key is at the back of the
\* queue on return and the other keys keep their relative order; with
\* modifyEvictionQueue = false (or under FIFO) the queue is exactly as it
\* was.
C12_HitReorders ==
    (last.op = "tryGetValue" /\ MapFind(last.preMap, last.key)) =>
       LET pre == QueueKeys(last.preQueue)
           fin == QueueKeys(d_queue)
       IN  /\ last.rc = 0
           /\ last.assigned
           /\ last.value = last.preMap[last.key].first
           /\ d_map = last.preMap
           /\ Size(d_map) = Size(last.preMap)
           /\ IF d_evictionPolicy = e_LRU /\ last.modifyEvictionQueue
              THEN /\ fin[Len(fin)] = last.key
                   /\ Remove(fin, last.key) = Remove(pre, last.key)
                   /\ Len(fin) = Len(pre)
                   /\ Range(d_queue) = Range(last.preQueue)
              ELSE d_queue = last.preQueue

C12_Witness ==
    /\ last.op = "tryGetValue"
    /\ last.rc = 0
    /\ d_evictionPolicy = e_LRU
    /\ last.modifyEvictionQueue
    /\ Len(d_queue) = 3
    /\ Head(last.preQueue).key = last.key
    /\ d_queue[3].key = last.key

\* C13 (lock mode of tryGetValue): the call upgrades to the write lock if
\* and only if the policy is LRU, modifyEvictionQueue is true, the key is
\* found and it is not the last key of the queue; it never takes the write
\* lock outright; under FIFO or with modifyEvictionQueue = false it makes
\* the read-lock call only; and a call that does not upgrade (such as an LRU
\* read of the most recently used key) leaves the map and the queue as
\* they were.
C13_LockMode ==
    last.op = "tryGetValue" =>
       LET pre    == QueueKeys(last.preQueue)
           hit    == MapFind(last.preMap, last.key)
           atBack == pre # << >> /\ pre[Len(pre)] = last.key
           write  == /\ d_evictionPolicy = e_LRU
                     /\ last.modifyEvictionQueue
                     /\ hit
                     /\ ~atBack
       IN  /\ ("upgradeToWriteLock" \in Range(last.locks)) <=> write
           /\ "lockWrite" \notin Range(last.locks)
           /\ (d_evictionPolicy = e_FIFO \/ ~last.modifyEvictionQueue) =>
                  last.locks = <<"lockRead", "unlock">>
           /\ (d_evictionPolicy = e_LRU /\ last.modifyEvictionQueue) =>
                  /\ last.locks[1] = "lockReadReserveWrite"
                  /\ last.locks[Len(last.locks)] = "unlock"
           /\ (~write => d_map = last.preMap /\ d_queue = last.preQueue)

C13_Witness ==
    /\ last.op = "tryGetValue"
    /\ last.rc = 0
    /\ d_evictionPolicy = e_LRU
    /\ last.modifyEvictionQueue
    /\ Len(d_queue) >= 2
    /\ d_queue[Len(d_queue)].key = last.key
    /\ last.locks = <<"lockReadReserveWrite", "unlock">>

\* The callback invocations due for the items 'evicted' when 'callback' is
\* the installed callback.
Invocations(callback, evicted) ==
    IF callback = NoCallback THEN << >>
    ELSE [i \in 1..Len(evicted) |->
             [cb |-> callback, value |-> evicted[i].value]]

\* C14 (popFront): on a non-empty cache popFront returns 0, removes the
\* front entry of the queue from the map and the queue, invokes the
\* installed callback (if there is one) exactly once with that entry's
\* value handle, and leaves the other entries and their order as they were;
\* on an empty cache it returns 1, invokes nothing and changes nothing.
C14_PopFront ==
    last.op = "popFront" =>
       IF Size(last.preMap) > 0
       THEN LET front == Head(last.preQueue).key
                value == last.preMap[front].first
            IN  /\ last.rc = 0
                /\ d_queue = Tail(last.preQueue)
                /\ DOMAIN d_map = (DOMAIN last.preMap) \ {front}
                /\ \A o \in DOMAIN d_map : d_map[o] = last.preMap[o]
                /\ last.evicted = <<[key |-> front, value |-> value]>>
                /\ last.calls = Invocations(last.preCallback, last.evicted)
                /\ Len(last.calls)
                      = IF last.preCallback = NoCallback THEN 0 ELSE 1
       ELSE /\ last.rc = 1
            /\ last.evicted = << >>
            /\ last.calls = << >>
            /\ d_map = last.preMap
            /\ d_queue = last.preQueue

C14_Witness ==
    /\ last.op = "popFront"
    /\ last.rc = 0
    /\ Len(last.preQueue) = 3
    /\ Len(last.calls) = 1
    /\ last.calls[1].value = 2

\* C15 (erase of a present key): it returns 0, removes that key and no
\* other from the map and from the queue wherever its node is, invokes the
\* installed callback (if there is one) exactly once with the key's value
\* handle, leaves size() one less, and leaves the other entries and their
\* queue order as they were.
C15_ErasePresent ==
    (last.op = "erase" /\ MapFind(last.preMap, last.key)) =>
       LET Other(e) == e.key # last.key
           value    == last.preMap[last.key].first
       IN  /\ last.rc = 0
           /\ d_queue = SelectSeq(last.preQueue, Other)
           /\ Len(d_queue) = Len(last.preQueue) - 1
           /\ DOMAIN d_map = (DOMAIN last.preMap) \ {last.key}
           /\ \A o \in DOMAIN d_map : d_map[o] = last.preMap[o]
           /\ Size(d_map) = Size(last.preMap) - 1
           /\ last.evicted = <<[key |-> last.key, value |-> value]>>
           /\ last.calls = Invocations(last.preCallback, last.evicted)
           /\ Len(last.calls)
                 = IF last.preCallback = NoCallback THEN 0 ELSE 1

C15_Witness ==
    /\ last.op = "erase"
    /\ last.rc = 0
    /\ Len(last.preQueue) = 3
    /\ last.preQueue[2].key = last.key
    /\ Len(last.calls) = 1

\* C16 (erase of an absent key): it returns 1, invokes no callback and
\* leaves the map, the queue and size() as they were; an erase(k) made
\* immediately after an erase(k) is such a call, so it returns 1 and the
\* state stays what the first call left.
C16_EraseAbsent ==
    /\ (last.op = "erase" /\ ~MapFind(last.preMap, last.key)) =>
          /\ last.rc = 1
          /\ last.evicted = << >>
          /\ last.calls = << >>
          /\ d_map = last.preMap
          /\ d_queue = last.preQueue
          /\ d_postEvictionCallback = last.preCallback
    /\ (last.op = "erase" /\ last.prior.erase) =>
          /\ last.prior.key = last.key
          /\ ~MapFind(last.preMap, last.key)
          /\ last.rc = 1
          /\ d_map = last.preMap
          /\ d_queue = last.preQueue

C16_Witness ==
    /\ last.op = "erase"
    /\ last.prior.erase
    /\ last.prior.found
    /\ last.rc = 1
    /\ Len(d_queue) = 2
    /\ d_postEvictionCallback # NoCallback

\* C17 (clear silence): every clear() leaves the map and the queue empty
\* (size() == 0), evicts through no 'evictItem' and invokes no callback,
\* however many entries there were and whether or not a callback is
\* installed, and leaves the policy, the watermarks and the installed
\* callback as they were.
C17_ClearSilence ==
    [][last'.op = "clear" =>
          /\ d_map' = << >>
          /\ d_queue' = << >>
          /\ Size(d_map') = 0
          /\ last'.evicted = << >>
          /\ last'.calls = << >>
          /\ last'.preMap = d_map
          /\ d_evictionPolicy' = d_evictionPolicy
          /\ d_lowWatermark' = d_lowWatermark
          /\ d_highWatermark' = d_highWatermark
          /\ d_postEvictionCallback' = d_postEvictionCallback]_vars

C17_Witness ==
    /\ last.op = "clear"
    /\ Len(last.preQueue) = 3
    /\ last.preCallback # NoCallback
    /\ d_postEvictionCallback = last.preCallback
    /\ d_queue = << >>

\* The keys of 'pre' that are not keys of 'post', in the order of 'queue'.
Removed(pre, post, queue) ==
    LET Gone(e) == e.key \in (DOMAIN pre) \ (DOMAIN post)
    IN  QueueKeys(SelectSeq(queue, Gone))

\* C18 (callback accounting): in every call the items passed to
\* 'evictItem' are exactly the entries removed by watermark enforcement,
\* erase or popFront, each once, in the order of removal and with the value
\* handle the entry held; with a callback installed it is invoked exactly
\* once per such item, in that order, with that handle, and never for an
\* entry that stays; with no callback installed nothing is invoked; calls
\* other than insert, erase and popFront evict and invoke nothing.
C18_CallbackAccounting ==
    LET post == IF last.op = "insert" THEN last.midMap ELSE d_map
        keys == EvictedKeys(last.evicted)
    IN  /\ last.calls = Invocations(last.preCallback, last.evicted)
        /\ (last.preCallback = NoCallback => last.calls = << >>)
        /\ (last.preCallback # NoCallback =>
               Len(last.calls) = Len(last.evicted))
        /\ \A i \in 1..Len(last.evicted) :
               /\ keys[i] \in DOMAIN last.preMap
               /\ keys[i] \notin DOMAIN post
               /\ last.evicted[i].value = last.preMap[keys[i]].first
               /\ \A j \in 1..Len(last.evicted) : i # j => keys[i] # keys[j]
        /\ (last.op \in {"insert", "erase", "popFront"} =>
               keys = Removed(last.preMap, post, last.preQueue))
        /\ (last.op \notin {"insert", "erase", "popFront"} =>
               last.evicted = << >>)

C18_Witness ==
    /\ last.op = "insert"
    /\ last.preCallback # NoCallback
    /\ Len(last.calls) = 2
    /\ last.calls[1].value # last.calls[2].value
    /\ Len(d_queue) = 2

\* C19 (setPostEvictionCallback): the call assigns the given callback and
\* nothing else (no entry, order, size or watermark changes), and does it
\* holding the write lock while every other thread is outside its calls;
\* every callback invocation is made with the callback installed at that
\* moment, which is the one given to the latest setPostEvictionCallback;
\* so all invocations of one call's eviction cascade are made with the same
\* callback.
C19_SetPostEvictionCallback ==
    /\ [](\A t \in Threads :
            \A i, j \in 1..Len(work[t].calls) :
               work[t].calls[i].cb = work[t].calls[j].cb)
    /\ [][/\ \A t \in Threads :
              Len(work'[t].calls) > Len(work[t].calls) =>
                 /\ work'[t].calls[Len(work'[t].calls)].cb
                       = d_postEvictionCallback
                 /\ d_postEvictionCallback # NoCallback
                 /\ d_postEvictionCallback' = d_postEvictionCallback
          /\ \A t \in Threads :
              (pc[t] = "setPostEvictionCallback" /\ pc'[t] # pc[t]) =>
                 /\ d_postEvictionCallback' = work[t].postEvictionCallback
                 /\ d_rwlock.writer = t
                 /\ \A u \in Threads \ {t} : pc[u] = "idle"
                 /\ UNCHANGED <<d_map, d_queue, config>>
          /\ d_postEvictionCallback' # d_postEvictionCallback =>
                 \E t \in Threads :
                    /\ pc[t] = "setPostEvictionCallback"
                    /\ pc'[t] = "unlock"]_vars

C19_Witness ==
    \E t \in Threads :
       /\ pc[t] = "evicting"
       /\ d_rwlock.writer = t
       /\ Len(work[t].calls) = 2
       /\ work[t].calls[1].cb = "cbB"
       /\ d_postEvictionCallback = "cbB"
       /\ Len(d_queue) = 1

\* C20 (visit): the visitor is called on the entries in queue order from
\* the front, each with its key and the value handle mapped to it, no entry
\* twice, up to and including the first entry for which it returns false
\* and on none after it (on all entries if it never returns false); the
\* map and the queue are left as they were under either policy, and no
\* callback is invoked.
C20_Visit ==
    last.op = "visit" =>
       LET keys  == QueueKeys(d_queue)
           stops == {i \in 1..Len(keys) : keys[i] \in last.stopKeys}
           n     == IF stops = {} THEN Len(keys)
                    ELSE CHOOSE i \in stops : \A j \in stops : i <= j
       IN  /\ Len(last.visited) = n
           /\ \A i \in 1..n :
                  /\ last.visited[i].key = keys[i]
                  /\ last.visited[i].value = d_map[keys[i]].first
                  /\ (i < n => keys[i] \notin last.stopKeys)
                  /\ \A j \in 1..n :
                        i # j => last.visited[i].key # last.visited[j].key
           /\ d_map = last.preMap
           /\ d_queue = last.preQueue
           /\ last.calls = << >>
           /\ last.locks = <<"lockRead", "unlock">>

C20_Witness ==
    /\ last.op = "visit"
    /\ Len(d_queue) = 3
    /\ last.stopKeys = {d_queue[2].key, d_queue[3].key}
    /\ Len(last.visited) = 2
    /\ last.visited[1].value # last.visited[2].value

\* C28 (failure-safety of insert): when 'd_map.emplace' throws after the
\* key was pushed on the back of the queue, the pushed node is popped again
\* before insert exits: the queue is what it was before the push, the map
\* and the queue are in bijection, the key is in neither and size() is the
\* queue length; when insert returns normally the pushed node is kept.
C28_ProctorRollback ==
    /\ (last.op = "insert" /\ last.threw) =>
          /\ d_queue = last.midQueue
          /\ d_map = last.midMap
          /\ DOMAIN d_map = Range(QueueKeys(d_queue))
          /\ last.key \notin DOMAIN d_map
          /\ last.key \notin Range(QueueKeys(d_queue))
          /\ Size(d_map) = Len(d_queue)
    /\ (last.op = "insert" /\ ~last.threw /\ ~last.found) =>
          /\ Len(d_queue) = Len(last.midQueue) + 1
          /\ d_queue[Len(d_queue)].key = last.key
          /\ d_map[last.key].second = d_queue[Len(d_queue)].node

C28_Witness ==
    /\ last.op = "insert"
    /\ last.threw
    /\ last.failAt = "emplace"
    /\ Len(d_queue) = 2
    /\ last.evicted = << >>

\* C29 as stated (all-or-nothing insert): after an insert that fails the
\* keys, the values and the queue order are what they were when insert was
\* called, also when it was called with size() >= high watermark.
C29_Original ==
    (last.op = "insert" /\ last.threw) =>
       /\ d_map = last.preMap
       /\ d_queue = last.preQueue

\* C29 as amended (basic guarantee): after an insert that fails the map and
\* the queue are what watermark enforcement left them and the key is not
\* added; that is the state at the call when insert was called with
\* size() < high watermark; when it was called with size() >= high
\* watermark the entries evicted before the failure stay evicted and the
\* callback has been invoked for them.
C29_BasicGuarantee ==
    (last.op = "insert" /\ last.threw) =>
       /\ d_map = last.midMap
       /\ d_queue = last.midQueue
       /\ last.key \notin DOMAIN d_map
       /\ (Size(last.preMap) < d_highWatermark =>
              /\ d_map = last.preMap
              /\ d_queue = last.preQueue
              /\ last.calls = << >>)
       /\ (Size(last.preMap) >= d_highWatermark =>
              /\ last.evicted # << >>
              /\ Size(d_map) = d_lowWatermark - 1
              /\ Size(d_map) < Size(last.preMap)
              /\ \A i \in 1..Len(last.evicted) :
                     last.evicted[i].key \notin DOMAIN d_map
              /\ last.calls = Invocations(last.preCallback, last.evicted))

C29_Witness ==
    /\ last.op = "insert"
    /\ last.threw
    /\ Size(last.preMap) >= d_highWatermark
    /\ Len(last.calls) = 2
    /\ Len(d_queue) = 1

\* C21 (usage example): with policy LRU, low watermark 3 and high watermark
\* 4, after the inserts of the example's keys 0, 1, 2 (here 1, 2, 3) size()
\* is 3; tryGetValue of its key 1 returns 0 with that key's value; after a
\* callback is installed, the insert of its key 3 gives size() 4 with no
\* callback invocation; the insert of its key 4 then gives size() 3 and
\* invokes the callback exactly twice, with the value of its key 0 and then
\* with the value of its key 2, and its key 1 stays in the cache.
C21_UsageExample ==
    /\ (exampleStage = 3 /\ last.op = "insert") => Size(d_map) = 3
    /\ (exampleStage = 4 /\ last.op = "tryGetValue") =>
          /\ last.rc = 0
          /\ last.assigned
          /\ last.value = UsageExample[2].valuePtr
          /\ Size(d_map) = 3
    /\ (exampleStage = 6 /\ last.op = "insert") =>
          /\ Size(d_map) = 4
          /\ last.calls = << >>
          /\ last.evicted = << >>
    /\ (exampleStage = 7 /\ last.op = "insert") =>
          /\ Size(d_map) = 3
          /\ Len(last.calls) = 2
          /\ last.calls[1] = [cb    |-> d_postEvictionCallback,
                              value |-> UsageExample[1].valuePtr]
          /\ last.calls[2] = [cb    |-> d_postEvictionCallback,
                              value |-> UsageExample[3].valuePtr]
          /\ EvictedKeys(last.evicted) = <<1, 3>>
          /\ MapFind(d_map, 2)
          /\ QueueKeys(d_queue) = <<2, 4, 5>>

C21_Witness ==
    /\ exampleStage = 7
    /\ last.op = "insert"
    /\ last.key = 5
    /\ d_lowWatermark = 3
    /\ d_highWatermark = 4
    /\ d_evictionPolicy = e_LRU
    /\ Len(last.calls) = 2

\* C22 as stated (scenario: LRU, low 3, high 4; insert keys 0, 1, 2, then 1
\* again, then 3, then 4; here the keys are 1..5): the last insert evicts
\* the scenario's key 0 and then its key 1, and the cache ends with the
\* scenario's keys {2, 3, 4}.
C22_Original ==
    (scenarioStage = 6 /\ last.op = "insert") =>
       /\ EvictedKeys(last.evicted) = <<1, 2>>
       /\ DOMAIN d_map = {3, 4, 5}

\* C22 as amended: in that scenario size() is 3 after the first three
\* inserts and stays 3 after the second insert of the scenario's key 1,
\* which moves that key to the back of the queue; the insert of its key 3
\* gives size() 4 with no eviction; the insert of its key 4 evicts its key
\* 0 and then its key 2, reaching size() 2, and then adds key 4, giving
\* size() 3; the cache ends with the scenario's keys {1, 3, 4}.
C22_ReinsertScenario ==
    /\ (scenarioStage = 3 /\ last.op = "insert") => Size(d_map) = 3
    /\ (scenarioStage = 4 /\ last.op = "insert") =>
          /\ Size(d_map) = 3
          /\ last.evicted = << >>
          /\ QueueKeys(d_queue) = <<1, 3, 2>>
    /\ (scenarioStage = 5 /\ last.op = "insert") =>
          /\ Size(d_map) = 4
          /\ last.evicted = << >>
    /\ (scenarioStage = 6 /\ last.op = "insert") =>
          /\ EvictedKeys(last.evicted) = <<1, 3>>
          /\ last.midSize = 2
          /\ Size(d_map) = 3
          /\ DOMAIN d_map = {2, 4, 5}

C22_Witness ==
    /\ scenarioStage = 6
    /\ last.op = "insert"
    /\ last.key = 5
    /\ d_lowWatermark = 3
    /\ d_highWatermark = 4
    /\ d_evictionPolicy = e_LRU
    /\ Len(last.evicted) = 2

\* The statements at which a thread is about to change the map, the queue
\* or the callback, and those at which it is about to read map and queue.
Mutating(t) ==
    pc[t] \in {"insert", "evicting", "find", "emplace", "popFront", "erase",
               "setPostEvictionCallback", "clear", "splice"}

Reading(t) == pc[t] \in {"lookup", "visit"}

\* C23 (mutual exclusion and atomicity): at most one thread at a time is
\* inside a mutating section (the body of insert, erase, popFront, clear
\* or setPostEvictionCallback, or the move-to-back step of tryGetValue),
\* and it holds the write lock; no thread is at the lookup of tryGetValue
\* or at an iteration step of visit while another thread is inside a
\* mutating section; a thread at a lookup or an iteration step finds map
\* and queue in bijection; and map and queue change only in steps of the
\* thread holding the write lock, while no other thread is past its lock
\* call.
C23_MutualExclusion ==
    /\ [](/\ Cardinality({t \in Threads : Mutating(t)}) <= 1
          /\ \A t \in Threads :
                Mutating(t) => /\ d_rwlock.writer = t
                               /\ \A u \in Threads \ {t} : ~Reading(u)
          /\ \A t \in Threads :
                Reading(t) =>
                   /\ DOMAIN d_map = Range(QueueKeys(d_queue))
                   /\ Size(d_map) = Len(d_queue)
                   /\ \A k \in DOMAIN d_map :
                         \E i \in 1..Len(d_queue) :
                            /\ d_queue[i].node = d_map[k].second
                            /\ d_queue[i].key = k)
    /\ [][(d_map' # d_map \/ d_queue' # d_queue) =>
             \E t \in Threads :
                /\ Mutating(t)
                /\ pc'[t] # "idle"
                /\ \A u \in Threads \ {t} :
                      /\ pc[u] \in {"idle", "lock"}
                      /\ work'[u] = work[u]]_vars

C23_Witness ==
    /\ pc[1] = "emplace"
    /\ Len(d_queue) = Size(d_map) + 1
    /\ pc[2] = "lock"
    /\ work[2].op = "tryGetValue"

\* C24 (escalation atomicity): from the lookup of an LRU tryGetValue that
\* decided to move its key until the move is made, the map and the queue
\* do not change: the key is still in the map with the value handle and
\* the queue iterator the lookup read, that iterator is still the queue
\* node of the key, and the node is still not at the back; the only change
\* made when the call goes on is the move of that node to the back.
C24_EscalationAtomic ==
    /\ [](\A t \in Threads :
            pc[t] \in {"upgrade", "reacquire", "splice"} =>
               LET key == work[t].key
                   itr == work[t].queueItr
               IN  /\ MapFind(d_map, key)
                   /\ d_map[key].second = itr
                   /\ d_map[key].first = work[t].value
                   /\ \E i \in 1..Len(d_queue) :
                         /\ d_queue[i].node = itr
                         /\ d_queue[i].key = key
                   /\ NotAtBack(d_queue, itr)
                   /\ d_evictionPolicy = e_LRU
                   /\ work[t].modifyEvictionQueue)
    /\ [][\A t \in Threads :
            /\ pc[t] \in {"upgrade", "reacquire"} =>
                  UNCHANGED <<d_map, d_queue>>
            /\ pc[t] = "splice" =>
                  /\ d_map' = d_map
                  /\ \/ d_queue' = d_queue /\ pc'[t] = "splice"
                     \/ /\ pc'[t] = "unlock"
                        /\ QueueKeys(d_queue')
                              = SelectSeq(QueueKeys(d_queue),
                                          LAMBDA k : k # work[t].key)
                                \o <<work[t].key>>]_vars

C24_Witness ==
    /\ pc[1] = "splice"
    /\ pc[2] = "lock"
    /\ work[2].op = "erase"
    /\ work[2].key = work[1].key

\* C26 (callback re-entrancy deadlocks): the callback is invoked while the
\* evicting thread holds the write lock; when the callback installed calls
\* a locking method of the cache, a thread that has evicted an item is at
\* that inner call, none of the three lock calls the inner call may start
\* with can be granted, and from then on the thread stays at the inner call
\* and keeps the write lock, so the outer call never returns.
C26_ReentrantCallback ==
    /\ [](\A t \in Threads :
            /\ work[t].calls # << >> => d_rwlock.writer = t
            /\ (work[t].evicted # << >>
                   /\ d_postEvictionCallback \in ReentrantCallbacks) =>
                  pc[t] = "reenter"
            /\ pc[t] = "reenter" =>
                  /\ d_rwlock.writer = t
                  /\ work[t].calls[Len(work[t].calls)].cb
                        \in ReentrantCallbacks
                  /\ ~CanLockWrite(d_rwlock)
                  /\ ~CanLockRead(d_rwlock)
                  /\ ~CanLockReadReserveWrite(d_rwlock))
    /\ [][\A t \in Threads :
            pc[t] = "reenter" => /\ pc'[t] = "reenter"
                                 /\ d_rwlock'.writer = t]_vars

C26_Witness ==
    /\ pc[1] = "reenter"
    /\ work[1].op = "insert"
    /\ pc[2] = "lock"

\* Thread 't' is in a call and its next statement can be executed.
CanRun(t) ==
    /\ pc[t] # "idle"
    /\ \/ ENABLED ThreadRuns(t)
       \/ ENABLED (ThreadAcquire(t) /\ UNCHANGED sequential)
       \/ ENABLED (ThreadUpgrade(t) /\ UNCHANGED sequential)

\* C25 (deadlock freedom and progress; callbacks and visitors return and
\* do not call the cache): in no reachable state of threads calling insert,
\* tryGetValue in any mode, popFront, erase, clear, setPostEvictionCallback
\* and visit are some threads in calls with none of them able to take its
\* next step, and under fair scheduling every call a thread has started
\* returns; so two LRU reads that both have to move their key do not block
\* each other forever.
C25_Progress ==
    /\ []((\E t \in Threads : pc[t] # "idle") =>
            \E t \in Threads : CanRun(t))
    /\ \A t \in Threads : (pc[t] # "idle") ~> (pc[t] = "idle")

C25_Witness ==
    /\ d_evictionPolicy = e_LRU
    /\ pc[1] = "upgrade"
    /\ pc[2] = "lock"
    /\ work[2].op = "tryGetValue"
    /\ work[2].modifyEvictionQueue
    /\ MapFind(d_map, work[2].key)
    /\ NotAtBack(d_queue, d_map[work[2].key].second)

\* Thread 't' waits in the lock call of a manipulator.
WaitsToWrite(t) == pc[t] = "lock" /\ work[t].op \in WriteOps

C30_HandleStability ==
    /\ \A p \in Values :
          /\ held[p] # 0 => /\ heap[p].count > 0
                            /\ heap[p].content = held[p]
          /\ heap[p].count
                = MapRefs(d_map, p) + (IF held[p] # 0 THEN 1 ELSE 0)
          /\ heap[p].count > 0 => heap[p].content \in Contents
    /\ \A k \in DOMAIN d_map : heap[d_map[k].first].count > 0
    /\ (last.op = "insert" /\ ~last.threw) =>
          d_map[last.key].first = last.valuePtr
    /\ (last.op = "tryGetValue" /\ last.rc = 0) => held[last.value] # 0

C30_Witness ==
    /\ last.op = "insert"
    /\ last.found
    /\ last.valuePtr # last.preMap[last.key].first
    /\ held[last.preMap[last.key].first] # 0
    /\ MapRefs(d_map, last.preMap[last.key].first) = 0
    /\ heap[last.valuePtr].content # held[last.preMap[last.key].first]

\* C36 (overwrite at the high watermark): an insert called with its key
\* present and size() >= high watermark first evicts the first
\* size() - (low - 1) keys of the queue; when the key is among them its old
\* value handle is reported to the installed callback, the lookup then
\* misses, and the key is added as a new entry at the back, which gives
\* size() == low; when the key is not among them the lookup hits, the
\* handle is replaced, the key moves to the back and size() == low - 1.
C36_OverwriteAtHighWatermark ==
    (/\ last.op = "insert"
     /\ MapFind(last.preMap, last.key)
     /\ Size(last.preMap) >= d_highWatermark) =>
       LET pre   == QueueKeys(last.preQueue)
           n     == Size(last.preMap) - (d_lowWatermark - 1)
           front == SubSeq(pre, 1, n)
           fin   == QueueKeys(d_queue)
           k     == last.key
       IN  /\ EvictedKeys(last.evicted) = front
           /\ last.midSize = d_lowWatermark - 1
           /\ IF k \in Range(front)
              THEN /\ ~last.found
                   /\ \E i \in 1..Len(last.evicted) :
                         /\ last.evicted[i].key = k
                         /\ last.evicted[i].value = last.preMap[k].first
                         /\ last.preCallback # NoCallback =>
                               last.calls[i]
                                 = [cb    |-> last.preCallback,
                                    value |-> last.preMap[k].first]
                   /\ ~last.threw =>
                         /\ fin = Append(SubSeq(pre, n + 1, Len(pre)), k)
                         /\ d_map[k].first = last.valuePtr
                         /\ Size(d_map) = d_lowWatermark
              ELSE /\ last.found
                   /\ ~last.threw
                   /\ fin = Append(Remove(SubSeq(pre, n + 1, Len(pre)), k), k)
                   /\ d_map[k].first = last.valuePtr
                   /\ d_map[k].second = last.preMap[k].second
                   /\ Size(d_map) = d_lowWatermark - 1

C36_Witness ==
    /\ last.op = "insert"
    /\ MapFind(last.preMap, last.key)
    /\ Size(last.preMap) >= d_highWatermark
    /\ Len(last.evicted) = 2
    /\ last.evicted[2].key = last.key
    /\ ~last.found
    /\ ~last.threw
    /\ Len(last.calls) = 2
    /\ Size(d_map) = 2

\* C37 (replacing a value is not an eviction): when insert finds its key at
\* the lookup step, the key is not among the items passed to 'evictItem',
\* the callback is invoked once per item evicted by watermark enforcement
\* and not once more, so no invocation is made for the replaced handle.
C37_OverwriteIsSilent ==
    (last.op = "insert" /\ last.found) =>
       /\ \A i \in 1..Len(last.evicted) : last.evicted[i].key # last.key
       /\ last.calls = Invocations(last.preCallback, last.evicted)
       /\ Len(last.calls) <= Len(last.evicted)
       /\ last.evicted = << >> => last.calls = << >>

C37_Witness ==
    /\ last.op = "insert"
    /\ last.found
    /\ last.preCallback # NoCallback
    /\ last.midMap[last.key].first # last.valuePtr
    /\ last.evicted = << >>
    /\ last.calls = << >>
    /\ Len(d_queue) >= 2

\* C38 (order frame): in every call the keys other than the one the call
\* names that are present before and after it keep their relative order in
\* the queue; a key present after the call was present before it or is
\* the key named; the key named by an insert that returns, and by a
\* tryGetValue under LRU that finds it and may modify the queue, is at the
\* back afterwards; every other call that keeps the key named leaves it
\* where it was.
C38_OrderFrame ==
    last.op # "none" =>
       LET pre    == QueueKeys(last.preQueue)
           fin    == QueueKeys(d_queue)
           k      == last.key
           Stay(x) == x # k /\ x \in Range(pre) /\ x \in Range(fin)
           moves  == \/ last.op = "insert" /\ ~last.threw
                     \/ /\ last.op = "tryGetValue"
                        /\ last.rc = 0
                        /\ d_evictionPolicy = e_LRU
                        /\ last.modifyEvictionQueue
       IN  /\ SelectSeq(fin, Stay) = SelectSeq(pre, Stay)
           /\ Range(fin) \subseteq Range(pre) \cup {k}
           /\ moves => fin # << >> /\ fin[Len(fin)] = k
           /\ (~moves /\ k \in Range(fin)) =>
                 /\ k \in Range(pre)
                 /\ fin = SelectSeq(pre, LAMBDA x : x \in Range(fin))

C38_Witness ==
    /\ last.op = "tryGetValue"
    /\ last.rc = 0
    /\ d_evictionPolicy = e_LRU
    /\ last.modifyEvictionQueue
    /\ Len(d_queue) = 3
    /\ Head(last.preQueue).key = last.key

\* C35 (size bound): with 1 <= low <= high, size() <= highWatermark() in
\* every state the threads can reach, the states inside an insert
\* included: once enforcement is over (the insert is at its lookup, or
\* between 'push_back' and 'emplace') size() is below the high watermark,
\* so that the entry added brings it to the high watermark at most.
C35_SizeBound ==
    /\ Size(d_map) <= d_highWatermark
    /\ Len(d_queue) <= d_highWatermark
    /\ \A t \in Threads :
          pc[t] \in {"find", "emplace"} => Size(d_map) < d_highWatermark

C35_Witness ==
    \E t \in Threads :
       /\ pc[t] = "unlock"
       /\ work[t].valuePtr # NullPtr
       /\ work[t].evicted # << >>
       /\ Size(d_map) = d_highWatermark
       /\ d_highWatermark >= 2

\* C40 (configuration is fixed): no step changes the eviction policy or a
\* watermark, the accessors return the three fields, and
\* 1 <= lowWatermark() <= highWatermark() in every reachable state.
C40_ConfigurationFixed ==
    /\ [](/\ d_evictionPolicy \in {e_LRU, e_FIFO}
          /\ 1 <= d_lowWatermark
          /\ d_lowWatermark <= d_highWatermark)
    /\ [][/\ config' = config
          /\ last'.op = "evictionPolicy" => last'.policy = d_evictionPolicy
          /\ last'.op = "lowWatermark" => last'.rc = d_lowWatermark
          /\ last'.op = "highWatermark" => last'.rc = d_highWatermark]_vars

C40_Witness ==
    /\ last.op = "lowWatermark"
    /\ last.rc = 2
    /\ Len(d_queue) = 3
    /\ d_highWatermark = 3
    /\ d_postEvictionCallback # NoCallback

\* C33 (default-constructed cache): the policy is LRU and both watermarks
\* are the maximum size value in every state; no insert evicts an item or
\* invokes the callback, each insert that returns adds one entry when its
\* key is absent and none when it is present; and size() is the number of
\* distinct keys inserted and not removed since by erase, popFront or
\* clear, which the keys of the map are.
C33_DefaultCache ==
    /\ d_evictionPolicy = e_LRU
    /\ d_lowWatermark = SizeMax
    /\ d_highWatermark = SizeMax
    /\ Size(d_map) < d_highWatermark
    /\ DOMAIN d_map = Range(touched)
    /\ Size(d_map) = Cardinality(Range(touched))
    /\ Len(touched) = Cardinality(Range(touched))
    /\ last.op = "insert" =>
          /\ last.evicted = << >>
          /\ last.calls = << >>
          /\ last.midSize = Size(last.preMap)
          /\ ~last.asserted
          /\ ~last.threw =>
                Size(d_map) = Size(last.preMap) + (IF last.found THEN 0 ELSE 1)
    /\ last.op = "size" => last.rc = Cardinality(Range(touched))
    /\ last.op = "evictionPolicy" => last.policy = e_LRU
    /\ last.op \in {"lowWatermark", "highWatermark"} => last.rc = SizeMax

C33_Witness ==
    /\ last.op = "insert"
    /\ ~last.found
    /\ ~last.threw
    /\ Size(last.preMap) = NumLruKeys - 1
    /\ Size(d_map) = NumLruKeys
    /\ d_highWatermark = SizeMax
    /\ last.preCallback # NoCallback

\* The pairs of the first 'n' nodes of the queue, as 'visit' passes them to
\* the visitor.
QueuePairs(n) ==
    [i \in 1..n |-> [key   |-> d_queue[i].key,
                     value |-> d_map[d_queue[i].key].first]]

\* Thread 't' is inside 'visit', between the return of its lock call and
\* the release of the lock.
Visiting(t) == work[t].op = "visit" /\ pc[t] \in {"visit", "unlock"}

\* C31 (visit holds shared access for the whole call): while a thread is
\* inside visit it holds the read lock and no thread holds the write lock;
\* no step taken meanwhile changes the map, the queue or the callback, so
\* that the pairs passed to the visitor so far are a prefix of the queue as
\* it is now, in order and with the values the map has now; and every
\* manipulator called meanwhile stays at its lock call.
C31_VisitSnapshot ==
    /\ [](\A t \in Threads :
            Visiting(t) =>
               /\ t \in d_rwlock.readers
               /\ d_rwlock.writer = NoThread
               /\ work[t].visited <= Len(d_queue)
               /\ work[t].seen = QueuePairs(work[t].visited)
               /\ \A u \in Threads \ {t} :
                     /\ ~Mutating(u)
                     /\ work[u].op \in WriteOps => pc[u] = "lock"
                     /\ WaitsToWrite(u) =>
                           ~ENABLED (ThreadAcquire(u) /\ UNCHANGED sequential))
    /\ [][(\E t \in Threads : Visiting(t)) =>
             /\ d_map' = d_map
             /\ d_queue' = d_queue
             /\ d_postEvictionCallback' = d_postEvictionCallback]_vars

C31_Witness ==
    /\ pc[1] = "visit"
    /\ work[1].op = "visit"
    /\ Len(work[1].seen) = 1
    /\ Len(d_queue) = 2
    /\ WaitsToWrite(2)
    /\ work[2].op = "insert"

\* Thread 't' is making a call that takes shared access only: visit, or
\* tryGetValue under FIFO or with 'modifyEvictionQueue' false.
SharedOnly(t) ==
    \/ work[t].op = "visit"
    \/ /\ work[t].op = "tryGetValue"
       /\ d_evictionPolicy = e_FIFO \/ ~work[t].modifyEvictionQueue

\* C32 (readers do not exclude one another): a call that takes shared
\* access only is granted the lock whenever no thread holds the write lock
\* and none waits for it, however many readers hold the lock; once inside
\* it holds the read lock without the reservation, never asks for the
\* upgrade, and its next step is enabled whatever the other readers do.
C32_SharedReaders ==
    \A t \in Threads :
       SharedOnly(t) =>
          /\ (/\ pc[t] = "lock"
              /\ d_rwlock.writer = NoThread
              /\ d_rwlock.pending = {}) =>
                 ENABLED (ThreadAcquire(t) /\ UNCHANGED sequential)
          /\ pc[t] \in {"lock", "lookup", "visit", "unlock"}
          /\ pc[t] \in {"lookup", "visit", "unlock"} =>
                /\ t \in d_rwlock.readers
                /\ d_rwlock.reserved # t
                /\ d_rwlock.writer = NoThread
                /\ ENABLED ThreadRuns(t)

C32_Witness ==
    /\ SharedOnly(1)
    /\ SharedOnly(2)
    /\ pc[1] = "visit"
    /\ work[1].visited = 1
    /\ pc[2] = "lookup"
    /\ d_rwlock.readers = {1, 2}
    /\ d_rwlock.writer = NoThread

\* The latest item thread 't' removed in 'evictItem'.
Evicting(t) == work[t].evicted[Len(work[t].evicted)]

\* C34 (state at callback time): when a thread is at the test and
\* invocation of the callback in 'evictItem', the item is in neither the
\* map nor the queue, map and queue are in bijection, size() counts the
\* items left, the thread holds the write lock and no other thread is
\* inside a locked method; the value kept for the callback is the handle
\* the map held when the removal started, and it is the value the callback
\* is invoked with; the callback is invoked once per item removed while it
\* is installed, and no item is removed while a callback is pending, so in
\* a cascade each callback returns before the next removal.
C34_CallbackState ==
    /\ [](\A t \in Threads :
            /\ pc[t] = "callback" =>
                  /\ work[t].evicted # << >>
                  /\ Evicting(t).key \notin DOMAIN d_map
                  /\ Evicting(t).key \notin Range(QueueKeys(d_queue))
                  /\ Evicting(t).value = work[t].captured
                  /\ DOMAIN d_map = Range(QueueKeys(d_queue))
                  /\ Size(d_map) = Len(d_queue)
                  /\ \A k \in DOMAIN d_map :
                        \E i \in 1..Len(d_queue) :
                           /\ d_queue[i].node = d_map[k].second
                           /\ d_queue[i].key = k
                  /\ d_rwlock.writer = t
                  /\ d_rwlock.readers = {}
                  /\ \A u \in Threads \ {t} : pc[u] \in {"idle", "size"}
                  /\ Len(work[t].calls) =
                        IF d_postEvictionCallback # NoCallback
                        THEN Len(work[t].evicted) - 1 ELSE 0
            /\ pc[t] = "evicting" =>
                  Len(work[t].calls) =
                     IF d_postEvictionCallback # NoCallback
                     THEN Len(work[t].evicted) ELSE 0)
    /\ [][\A t \in Threads :
            /\ (pc[t] # "callback" /\ pc'[t] = "callback") =>
                  LET e == work'[t].evicted[Len(work'[t].evicted)]
                  IN  /\ e.key \in DOMAIN d_map
                      /\ e.value = d_map[e.key].first
                      /\ work'[t].captured = d_map[e.key].first
                      /\ Size(d_map') = Size(d_map) - 1
                      /\ QueueKeys(d_queue') = Remove(QueueKeys(d_queue), e.key)
            /\ (pc[t] = "callback" /\ pc'[t] # "callback") =>
                  /\ d_map' = d_map
                  /\ d_queue' = d_queue
                  /\ d_rwlock' = d_rwlock
                  /\ pc'[t] = work[t].resume
                  /\ work'[t].calls =
                        IF d_postEvictionCallback # NoCallback
                        THEN Append(work[t].calls,
                                    [cb    |-> d_postEvictionCallback,
                                     value |-> work[t].captured])
                        ELSE work[t].calls
            /\ (pc[t] = "callback" /\ pc'[t] = "callback") =>
                  d_map' = d_map /\ d_queue' = d_queue]_vars

C34_Witness ==
    \E t \in Threads :
       /\ pc[t] = "callback"
       /\ work[t].resume = "evicting"
       /\ d_postEvictionCallback # NoCallback
       /\ Len(work[t].evicted) = 2
       /\ Len(work[t].calls) = 1
       /\ work[t].evicted[1].value # work[t].captured
       /\ Size(d_map) = 1

\* Thread 'u' is in the eviction cascade of an insert: between the entry
\* test of 'enforceHighWatermark' that failed and the exit of its loop.
Cascading(u) ==
    \/ pc[u] = "evicting"
    \/ pc[u] = "callback" /\ work[u].resume = "evicting"

\* The size of the map when the insert thread 'u' is making was called.
PreInsertSize(u) == Size(d_map) + Len(work[u].evicted)

\* C39 (size() takes no lock): a thread that is not inside a call can call
\* size() in every state, whoever holds the write lock and whether or not
\* a callback is pending, and an installed callback can call it; the call
\* leaves the lock, the map and the queue as they are and returns
\* 'd_map.size()' as it is at that step; during the eviction cascade of an
\* insert this is a number from low - 1 up to the size the insert was
\* called with.
C39_SizeUnlocked ==
    /\ [](\A t \in Threads :
            /\ pc[t] = "idle" =>
                  ENABLED (ThreadSize(t) /\ UNCHANGED sequential)
            /\ (pc[t] = "callback" /\ d_postEvictionCallback # NoCallback) =>
                  ENABLED (ThreadCallback(t, TRUE) /\ UNCHANGED sequential))
    /\ [][\A t \in Threads :
            /\ (pc[t] = "idle" /\ pc'[t] = "size") =>
                  /\ work'[t].sizes = <<Size(d_map)>>
                  /\ d_rwlock' = d_rwlock
                  /\ d_map' = d_map
                  /\ d_queue' = d_queue
                  /\ \A u \in Threads :
                        Cascading(u) =>
                           /\ d_lowWatermark - 1 <= Size(d_map)
                           /\ Size(d_map) <= PreInsertSize(u)
            /\ (pc[t] = "callback" /\ work'[t].sizes # work[t].sizes) =>
                  /\ work'[t].sizes = <<Size(d_map)>>
                  /\ Cascading(t) =>
                        /\ d_lowWatermark - 1 <= Size(d_map)
                        /\ Size(d_map) < PreInsertSize(t)]_vars

C39_Witness ==
    \E t, u \in Threads :
       /\ pc[t] = "size"
       /\ Cascading(u)
       /\ d_rwlock.writer = u
       /\ work[t].sizes = <<Size(d_map)>>
       /\ d_lowWatermark - 1 < Size(d_map)
       /\ Size(d_map) < PreInsertSize(u)
       /\ work[u].sizes # << >>
       /\ work[u].sizes[1] > Size(d_map)
       /\ work[u].sizes[1] < PreInsertSize(u)

====
